---- MODULE Spec2Model ----
(***************************************************************************)
(* Model of the Spotify AI DJ backend (Express handlers /api/chat and      *)
(* /api/create-playlist with their helpers) as a state machine.            *)
(*                                                                         *)
(* A JavaScript string is modelled as the sequence of its characters.  A   *)
(* character is a one-letter TLA+ string; the characters outside ASCII     *)
(* that the program's tables use carry a name: "LF" (line feed), "BULLET", *)
(* "ENYE" and the Hebrew letters "HE_SHIN", "HE_YOD", "HE_RESH".           *)
(***************************************************************************)
EXTENDS Integers, Sequences, FiniteSets, TLC

VARIABLES
  build,        \* which backend entry file the process runs: "hybrid" | "basic"
  session,      \* req.session: [spotifyTokens, conversationHistory]
  pc,           \* position of the request being handled ("idle" when none)
  req,          \* locals of the handler of the request in flight
  response,     \* the last HTTP response sent: [status, body]
  playlists,    \* the playlists of the user's catalog: sequence of [id, name, tracks]
  calls,        \* Spotify calls issued by the create-playlist request, in order
  turns,        \* record of this session's accepted chat turns, oldest first
  sel,          \* input and result of a direct call of a pure helper
  messages      \* the chat page's message list: sequence of [role, content]

vars == <<build, session, pc, req, response, playlists, calls, turns, sel, messages>>

(***************************************************************************)
(* Strings                                                                 *)
(***************************************************************************)
UpperLetters ==
  <<"A","B","C","D","E","F","G","H","I","J","K","L","M",
    "N","O","P","Q","R","S","T","U","V","W","X","Y","Z">>

LowerLetters ==
  <<"a","b","c","d","e","f","g","h","i","j","k","l","m",
    "n","o","p","q","r","s","t","u","v","w","x","y","z">>

Range(f) == {f[i] : i \in DOMAIN f}

Min(S) == CHOOSE x \in S : \A y \in S : x <= y

Max(S) == CHOOSE x \in S : \A y \in S : x >= y

\* String.prototype.toLowerCase on one character
LowerChar(c) ==
  IF c \in Range(UpperLetters)
    THEN LowerLetters[CHOOSE i \in DOMAIN UpperLetters : UpperLetters[i] = c]
    ELSE c

\* String.prototype.toUpperCase on one character
UpperChar(c) ==
  IF c \in Range(LowerLetters)
    THEN UpperLetters[CHOOSE i \in DOMAIN LowerLetters : LowerLetters[i] = c]
    ELSE c

toLowerCase(s) == [i \in 1..Len(s) |-> LowerChar(s[i])]

toUpperCase(s) == [i \in 1..Len(s) |-> UpperChar(s[i])]

\* the characters \s matches among those of the model
Whitespace == {" ", "LF"}

\* String.prototype.trim
trim(s) ==
  LET ink == {i \in 1..Len(s) : s[i] \notin Whitespace}
  IN  IF ink = {} THEN <<>> ELSE SubSeq(s, Min(ink), Max(ink))

\* String.prototype.includes
includes(s, t) ==
  \E i \in 0..(Len(s) - Len(t)) : SubSeq(s, i + 1, i + Len(t)) = t

\* Array.prototype.join over an array of strings
RECURSIVE join(_, _)
join(arr, sep) ==
  IF Len(arr) = 0 THEN <<>>
  ELSE IF Len(arr) = 1 THEN arr[1]
  ELSE arr[1] \o sep \o join(Tail(arr), sep)

\* flattens an array of arrays (push(...list) in a loop)
RECURSIVE concatAll(_)
concatAll(arrs) ==
  IF Len(arrs) = 0 THEN <<>> ELSE arrs[1] \o concatAll(Tail(arrs))

(***************************************************************************)
(* Literal tables of the source                                            *)
(***************************************************************************)
\* 'create', 'make', 'generate', 'build', 'playlist', 'songs', 'ready', 'let's do it',
\* 'sounds good', 'perfect', 'yes'
playlistTriggers ==
  << <<"c","r","e","a","t","e">>,
     <<"m","a","k","e">>,
     <<"g","e","n","e","r","a","t","e">>,
     <<"b","u","i","l","d">>,
     <<"p","l","a","y","l","i","s","t">>,
     <<"s","o","n","g","s">>,
     <<"r","e","a","d","y">>,
     <<"l","e","t","'","s"," ","d","o"," ","i","t">>,
     <<"s","o","u","n","d","s"," ","g","o","o","d">>,
     <<"p","e","r","f","e","c","t">>,
     <<"y","e","s">> >>

\* 'who is', 'what is', 'tell me about', 'do you know', 'have you heard', 'is there a song',
\* 'does exist', 'real song', 'actual song'
factualTriggers ==
  << <<"w","h","o"," ","i","s">>,
     <<"w","h","a","t"," ","i","s">>,
     <<"t","e","l","l"," ","m","e"," ","a","b","o","u","t">>,
     <<"d","o"," ","y","o","u"," ","k","n","o","w">>,
     <<"h","a","v","e"," ","y","o","u"," ","h","e","a","r","d">>,
     <<"i","s"," ","t","h","e","r","e"," ","a"," ","s","o","n","g">>,
     <<"d","o","e","s"," ","e","x","i","s","t">>,
     <<"r","e","a","l"," ","s","o","n","g">>,
     <<"a","c","t","u","a","l"," ","s","o","n","g">> >>

\* the entries of moodGenreMap, in insertion order: [key, searchTerms]
moodGenreMap ==
  <<
    [key |-> <<"h","a","p","p","y">>,
     searchTerms |-> <<<<"p","o","p">>,
        <<"u","p","b","e","a","t">>,
        <<"f","e","e","l"," ","g","o","o","d">>,
        <<"h","a","p","p","y">>>>],
    [key |-> <<"b","i","r","t","h","d","a","y">>,
     searchTerms |-> <<<<"b","i","r","t","h","d","a","y">>,
        <<"c","e","l","e","b","r","a","t","i","o","n">>,
        <<"p","a","r","t","y">>,
        <<"u","p","b","e","a","t">>>>],
    [key |-> <<"s","a","d">>,
     searchTerms |-> <<<<"s","a","d">>,
        <<"e","m","o","t","i","o","n","a","l">>,
        <<"b","a","l","l","a","d">>,
        <<"m","e","l","a","n","c","h","o","l","y">>>>],
    [key |-> <<"e","n","e","r","g","e","t","i","c">>,
     searchTerms |-> <<<<"e","l","e","c","t","r","o","n","i","c">>,
        <<"d","a","n","c","e">>,
        <<"h","i","g","h"," ","e","n","e","r","g","y">>,
        <<"w","o","r","k","o","u","t">>>>],
    [key |-> <<"c","h","i","l","l">>,
     searchTerms |-> <<<<"c","h","i","l","l">>,
        <<"a","m","b","i","e","n","t">>,
        <<"l","o","-","f","i">>,
        <<"r","e","l","a","x","i","n","g">>>>],
    [key |-> <<"w","o","r","k","o","u","t">>,
     searchTerms |-> <<<<"p","u","m","p"," ","u","p">>,
        <<"g","y","m">>,
        <<"m","o","t","i","v","a","t","i","o","n">>,
        <<"h","i","g","h"," ","e","n","e","r","g","y">>>>],
    [key |-> <<"p","a","r","t","y">>,
     searchTerms |-> <<<<"p","a","r","t","y">>,
        <<"d","a","n","c","e">>,
        <<"c","l","u","b">>,
        <<"u","p","b","e","a","t">>>>],
    [key |-> <<"r","o","m","a","n","t","i","c">>,
     searchTerms |-> <<<<"r","o","m","a","n","t","i","c">>,
        <<"l","o","v","e">>,
        <<"b","a","l","l","a","d">>,
        <<"s","l","o","w">>>>],
    [key |-> <<"r","o","c","k">>,
     searchTerms |-> <<<<"r","o","c","k">>,
        <<"a","l","t","e","r","n","a","t","i","v","e">>,
        <<"i","n","d","i","e"," ","r","o","c","k">>>>],
    [key |-> <<"p","o","p">>,
     searchTerms |-> <<<<"p","o","p">>,
        <<"m","a","i","n","s","t","r","e","a","m">>,
        <<"c","h","a","r","t">>>>],
    [key |-> <<"h","i","p"," ","h","o","p">>,
     searchTerms |-> <<<<"h","i","p"," ","h","o","p">>,
        <<"r","a","p">>,
        <<"u","r","b","a","n">>>>],
    [key |-> <<"e","l","e","c","t","r","o","n","i","c">>,
     searchTerms |-> <<<<"e","l","e","c","t","r","o","n","i","c">>,
        <<"e","d","m">>,
        <<"t","e","c","h","n","o">>,
        <<"h","o","u","s","e">>>>],
    [key |-> <<"j","a","z","z">>,
     searchTerms |-> <<<<"j","a","z","z">>,
        <<"s","m","o","o","t","h"," ","j","a","z","z">>,
        <<"b","e","b","o","p">>>>],
    [key |-> <<"c","l","a","s","s","i","c","a","l">>,
     searchTerms |-> <<<<"c","l","a","s","s","i","c","a","l">>,
        <<"o","r","c","h","e","s","t","r","a","l">>,
        <<"s","y","m","p","h","o","n","y">>>>]
  >>

\* 'israeli music', 'hebrew songs', 'israel charts'
hebrewTerms ==
  << <<"i","s","r","a","e","l","i"," ","m","u","s","i","c">>,
     <<"h","e","b","r","e","w"," ","s","o","n","g","s">>,
     <<"i","s","r","a","e","l"," ","c","h","a","r","t","s">> >>

\* 'latin music', 'spanish songs', 'latin charts'
spanishTerms ==
  << <<"l","a","t","i","n"," ","m","u","s","i","c">>,
     <<"s","p","a","n","i","s","h"," ","s","o","n","g","s">>,
     <<"l","a","t","i","n"," ","c","h","a","r","t","s">> >>

\* 'k-pop', 'korean music', 'korean charts'
koreanTerms ==
  << <<"k","-","p","o","p">>,
     <<"k","o","r","e","a","n"," ","m","u","s","i","c">>,
     <<"k","o","r","e","a","n"," ","c","h","a","r","t","s">> >>

\* 'popular', 'top hits', 'chart toppers'
defaultTerms ==
  << <<"p","o","p","u","l","a","r">>,
     <<"t","o","p"," ","h","i","t","s">>,
     <<"c","h","a","r","t"," ","t","o","p","p","e","r","s">> >>

\* "hebrew"
STR_hebrew ==
  <<"h","e","b","r","e","w">>

\* "spanish"
STR_spanish ==
  <<"s","p","a","n","i","s","h">>

\* "español"
STR_espanol ==
  <<"e","s","p","a","ENYE","o","l">>

\* "korean"
STR_korean ==
  <<"k","o","r","e","a","n">>

\* "k-pop"
STR_kpop ==
  <<"k","-","p","o","p">>

\* "by"
STR_by ==
  <<"b","y">>

\* "from"
STR_from ==
  <<"f","r","o","m">>

\* "artist"
STR_artist ==
  <<"a","r","t","i","s","t">>

\* "song"
STR_song ==
  <<"s","o","n","g">>

\* "music"
STR_music ==
  <<"m","u","s","i","c">>

\* "YES"
STR_YES ==
  <<"Y","E","S">>

\* "\n\nCANDIDATE SONGS AVAILABLE (choose from these verified songs):\n"
candidateHeader ==
  <<"LF","LF","C","A","N","D","I","D","A","T","E"," ","S","O","N","G","S"," ","A","V","A","I","L","A","B","L","E"," ","(","c","h","o","o","s","e"," ","f","r","o","m"," ","t","h","e","s","e"," ","v","e","r","i","f","i","e","d"," ","s","o","n","g","s",")",":","LF">>

\* "\n\nPlease select approximately 15-25 songs from this list that best match the user's request. Only choose from this verified list."
candidateFooter ==
  <<"LF","LF","P","l","e","a","s","e"," ","s","e","l","e","c","t"," ","a","p","p","r","o","x","i","m","a","t","e","l","y"," ","1","5","-","2","5"," ","s","o","n","g","s"," ","f","r","o","m"," ","t","h","i","s"," ","l","i","s","t"," ","t","h","a","t"," ","b","e","s","t"," ","m","a","t","c","h"," ","t","h","e"," ","u","s","e","r","'","s"," ","r","e","q","u","e","s","t","."," ","O","n","l","y"," ","c","h","o","o","s","e"," ","f","r","o","m"," ","t","h","i","s"," ","v","e","r","i","f","i","e","d"," ","l","i","s","t",".">>

(***************************************************************************)
(* Intent classifier                                                       *)
(***************************************************************************)
\* the value of an absent session field (undefined)
NULL == "null"

\* the catch branch of shouldGeneratePlaylist: keyword detection
keywordFallback(message) ==
  \E i \in DOMAIN playlistTriggers :
    includes(toLowerCase(message), toLowerCase(playlistTriggers[i]))

\* faulty variant: a failed intent call answers false without the keyword test
shouldGeneratePlaylist_noFallback(message, intentAnalysis) ==
  IF intentAnalysis.kind = "ok"
    THEN toUpperCase(trim(intentAnalysis.content)) = STR_YES
  ELSE FALSE

\* shouldGeneratePlaylist(message), given how the gpt-3.5-turbo intent call ended:
\* [kind |-> "ok", content |-> <text>], [kind |-> "null"] for a null content, or
\* [kind |-> "error"] when the call throws (network, quota, no choices[0].message)
shouldGeneratePlaylist(message, intentAnalysis) ==
  IF intentAnalysis.kind = "ok"
    THEN toUpperCase(trim(intentAnalysis.content)) = STR_YES
  ELSE IF intentAnalysis.kind = "null"
    THEN FALSE
  ELSE keywordFallback(message)

(***************************************************************************)
(* Model selector                                                          *)
(***************************************************************************)
GPT35 == "gpt-3.5-turbo"

GPT4 == "gpt-4-turbo"

\* faulty variant: the cue test without toLowerCase
selectOptimalModel_caseSensitive(isPlaylistGeneration, hasCandidateSongs, conversationHistory) ==
  IF isPlaylistGeneration \/ hasCandidateSongs THEN GPT4
  ELSE
    LET lastMessage ==
          IF Len(conversationHistory) = 0 THEN <<>>
          ELSE conversationHistory[Len(conversationHistory)].content
        needsFactualAccuracy ==
          \E i \in DOMAIN factualTriggers :
            includes(lastMessage, factualTriggers[i])
    IN  IF needsFactualAccuracy THEN GPT4 ELSE GPT35

\* faulty variant: only the factual cues of the last message select the accurate model
selectOptimalModel_cuesOnly(isPlaylistGeneration, hasCandidateSongs, conversationHistory) ==
  LET lastMessage ==
        IF Len(conversationHistory) = 0 THEN <<>>
        ELSE conversationHistory[Len(conversationHistory)].content
      needsFactualAccuracy ==
        \E i \in DOMAIN factualTriggers :
          includes(toLowerCase(lastMessage), factualTriggers[i])
  IN  IF needsFactualAccuracy THEN GPT4 ELSE GPT35

selectOptimalModel(isPlaylistGeneration, hasCandidateSongs, conversationHistory) ==
  IF isPlaylistGeneration \/ hasCandidateSongs THEN GPT4
  ELSE
    LET lastMessage ==
          IF Len(conversationHistory) = 0 THEN <<>>
          ELSE conversationHistory[Len(conversationHistory)].content
        needsFactualAccuracy ==
          \E i \in DOMAIN factualTriggers :
            includes(toLowerCase(lastMessage), factualTriggers[i])
    IN  IF needsFactualAccuracy THEN GPT4 ELSE GPT35

(***************************************************************************)
(* Search terms                                                            *)
(***************************************************************************)
Letters == Range(UpperLetters) \cup Range(LowerLetters)

HebrewLetters == {"HE_SHIN", "HE_YOD", "HE_RESH"}

\* the character class [a-zA-Z\u0590-\u05FF\s] of both artist patterns
ArtistClass(c) == c \in Letters \cup HebrewLetters \cup Whitespace

MinRepeat == 2

MaxRepeat == 30

\* length of the longest run of ArtistClass characters of s that starts at p
ClassRun(s, p) ==
  LET stop == {k \in p..Len(s) : ~ArtistClass(s[k])}
  IN  IF stop = {} THEN Len(s) - p + 1 ELSE Min(stop) - p

\* length of the longest run of whitespace of s that starts at p
WsRun(s, p) ==
  LET stop == {k \in p..Len(s) : s[k] \notin Whitespace}
  IN  IF stop = {} THEN Len(s) - p + 1 ELSE Min(stop) - p

\* the literal lit matches s at p under the i flag
MatchCI(s, p, lit) ==
  /\ p >= 1
  /\ p + Len(lit) - 1 <= Len(s)
  /\ \A k \in 1..Len(lit) : LowerChar(s[p + k - 1]) = LowerChar(lit[k])

NoMatch == [found |-> FALSE]

\* /(?:by|from|artist)\s+([a-zA-Z\u0590-\u05FF\s]{2,30})/gi anchored at p:
\* the cue word, greedy whitespace (giving back to the group when the group
\* would be too short), then the greedy group
ByPatternAt(s, p) ==
  LET kw == IF MatchCI(s, p, STR_by) THEN Len(STR_by)
            ELSE IF MatchCI(s, p, STR_from) THEN Len(STR_from)
            ELSE IF MatchCI(s, p, STR_artist) THEN Len(STR_artist)
            ELSE 0
      q == p + kw
      w == WsRun(s, q)
      GroupLen(ws) ==
        LET run == ClassRun(s, q + ws)
        IN  IF run > MaxRepeat THEN MaxRepeat ELSE run
      oks == {ws \in 1..w : GroupLen(ws) >= MinRepeat}
  IN  IF kw = 0 \/ oks = {} THEN NoMatch
      ELSE LET ws == Max(oks)
               g == q + ws
           IN  [found |-> TRUE,
                group |-> SubSeq(s, g, g + GroupLen(ws) - 1),
                end |-> g + GroupLen(ws) - 1]

\* (?:\s*-|\s+songs?|\s+music) anchored at q: the index of the last character
\* matched, 0 when no alternative matches
SuffixEnd(s, q) ==
  LET w == WsRun(s, q)
  IN  IF q + w <= Len(s) /\ s[q + w] = "-" THEN q + w
      ELSE IF w >= 1 /\ MatchCI(s, q + w, STR_song)
        THEN IF MatchCI(s, q + w + Len(STR_song), <<"s">>)
               THEN q + w + Len(STR_song)
               ELSE q + w + Len(STR_song) - 1
      ELSE IF w >= 1 /\ MatchCI(s, q + w, STR_music)
        THEN q + w + Len(STR_music) - 1
      ELSE 0

\* /([a-zA-Z\u0590-\u05FF\s]{2,30})(?:\s*-|\s+songs?|\s+music)/gi anchored at p:
\* the greedy group, shortened until one of the suffixes follows it
SuffixPatternAt(s, p) ==
  LET run == ClassRun(s, p)
      top == IF run > MaxRepeat THEN MaxRepeat ELSE run
      oks == {L \in MinRepeat..top : SuffixEnd(s, p + L) # 0}
  IN  IF oks = {} THEN NoMatch
      ELSE LET L == Max(oks)
           IN  [found |-> TRUE,
                group |-> SubSeq(s, p, p + L - 1),
                end |-> SuffixEnd(s, p + L)]

\* message.matchAll(pattern): the groups of the successive leftmost matches,
\* each search resuming after the previous match
RECURSIVE matchAllBy(_, _)
matchAllBy(s, from) ==
  LET starts == {p \in from..Len(s) : ByPatternAt(s, p).found}
  IN  IF starts = {} THEN <<>>
      ELSE LET m == ByPatternAt(s, Min(starts))
           IN  <<m.group>> \o matchAllBy(s, m.end + 1)

RECURSIVE matchAllSuffix(_, _)
matchAllSuffix(s, from) ==
  LET starts == {p \in from..Len(s) : SuffixPatternAt(s, p).found}
  IN  IF starts = {} THEN <<>>
      ELSE LET m == SuffixPatternAt(s, Min(starts))
           IN  <<m.group>> \o matchAllSuffix(s, m.end + 1)

\* the groups kept as terms: if (match[1] && match[1].trim().length > 2)
MinTermLength == 2

artistTerms(groups) ==
  LET kept == SelectSeq(groups, LAMBDA g : Len(trim(g)) > MinTermLength)
  IN  [i \in 1..Len(kept) |-> trim(kept[i])]

\* [...new Set(terms)]: first occurrences, in order
uniqueInOrder(arr) ==
  LET F[i \in 0..Len(arr)] ==
        IF i = 0 THEN <<>>
        ELSE IF \E j \in 1..(i - 1) : arr[j] = arr[i] THEN F[i - 1]
        ELSE Append(F[i - 1], arr[i])
  IN  F[Len(arr)]

extractSearchTerms(message) ==
  LET lower == toLowerCase(message)
      artists == artistTerms(matchAllBy(message, 1))
                   \o artistTerms(matchAllSuffix(message, 1))
      hebrew == IF includes(lower, STR_hebrew)
                   \/ \E i \in 1..Len(message) : message[i] \in HebrewLetters
                THEN hebrewTerms ELSE <<>>
      spanish == IF includes(lower, STR_spanish) \/ includes(lower, STR_espanol)
                 THEN spanishTerms ELSE <<>>
      korean == IF includes(lower, STR_korean) \/ includes(lower, STR_kpop)
                THEN koreanTerms ELSE <<>>
      moods == concatAll([i \in 1..Len(moodGenreMap) |->
                 IF includes(lower, moodGenreMap[i].key)
                 THEN moodGenreMap[i].searchTerms ELSE <<>>])
      terms == artists \o hebrew \o spanish \o korean \o moods
  IN  uniqueInOrder(IF Len(terms) = 0 THEN defaultTerms ELSE terms)

\* the utterances a client submits
\* "create a playlist"
MSG_create ==
  <<"c","r","e","a","t","e"," ","a"," ","p","l","a","y","l","i","s","t">>

\* "I like rock music"
MSG_rock ==
  <<"I"," ","l","i","k","e"," ","r","o","c","k"," ","m","u","s","i","c">>

\* "Who Is Queen"
MSG_who ==
  <<"W","h","o"," ","I","s"," ","Q","u","e","e","n">>

\* "I like jazz"
MSG_jazz ==
  <<"I"," ","l","i","k","e"," ","j","a","z","z">>

\* "rock or jazz"
MSG_mix ==
  <<"r","o","c","k"," ","o","r"," ","j","a","z","z">>

\* "does yesterday exist"
MSG_does ==
  <<"d","o","e","s"," ","y","e","s","t","e","r","d","a","y"," ","e","x","i","s","t">>

\* "MAKE IT LOUD"
MSG_make ==
  <<"M","A","K","E"," ","I","T"," ","L","O","U","D">>

\* "What is jazz"
MSG_what ==
  <<"W","h","a","t"," ","i","s"," ","j","a","z","z">>

\* "is it a real song"
MSG_real ==
  <<"i","s"," ","i","t"," ","a"," ","r","e","a","l"," ","s","o","n","g">>

\* the texts the intent call answers with
\* "YES"
ANS_yes ==
  <<"Y","E","S">>

\* "NO"
ANS_no ==
  <<"N","O">>

\* " yes\n"
ANS_yes_padded ==
  <<" ","y","e","s","LF">>

\* "Yes."
ANS_yes_dot ==
  <<"Y","e","s",".">>

\* the texts the reply-generating call answers with
\* "Nice!"
REPLY_chat ==
  <<"N","i","c","e","!">>

\* "Go [PLAYLIST_DATA][{"artist":"A","song":"B"}][/PLAYLIST_DATA]"
REPLY_list ==
  <<"G","o"," ","[","P","L","A","Y","L","I","S","T","_","D","A","T","A","]","[","{","\"","a","r","t","i","s","t","\"",":","\"","A","\"",",","\"","s","o","n","g","\"",":","\"","B","\"","}","]","[","/","P","L","A","Y","L","I","S","T","_","D","A","T","A","]">>

\* the system utterance of each entry file, abridged to its first words
SYSTEM_hybrid ==
  <<"Y","o","u"," ","a","r","e"," ","a"," ","S","p","o","t","i","f","y"," ","A","I"," ","D","J"," ","a","s","s","i","s","t","a","n","t"," ","(","a","n","t","i","-","h","a","l","l","u","c","i","n","a","t","i","o","n"," ","r","u","l","e","s",")">>

SYSTEM_basic ==
  <<"Y","o","u"," ","a","r","e"," ","a"," ","S","p","o","t","i","f","y"," ","A","I"," ","D","J"," ","a","s","s","i","s","t","a","n","t"," ","(","c","r","i","t","i","c","a","l"," ","r","u","l","e","s",")">>

(***************************************************************************)
(* Bounds and inputs                                                       *)
(***************************************************************************)
\* chat turns a client submits within one session
MaxTurns == 2

Messages == {MSG_create, MSG_rock, MSG_who, MSG_mix}

\* the bodies of a chat request: a message, the empty message, no message field
ChatBodies ==
  {[message |-> m] : m \in Messages \cup {<<>>}} \cup {[other |-> <<>>]}

\* how the intent call of shouldGeneratePlaylist can end: with a text, with a
\* null content, or by throwing
IntentOutcomes ==
  {[kind |-> "ok", content |-> c] : c \in {ANS_yes, ANS_no, ANS_yes_padded, ANS_yes_dot}}
    \cup {[kind |-> "null"], [kind |-> "error"]}

\* how the reply-generating call can end: with a text or by throwing
CompletionOutcomes ==
  {[ok |-> TRUE, content |-> r] : r \in {REPLY_chat, REPLY_list}} \cup {[ok |-> FALSE]}

(***************************************************************************)
(* The catalog's answers to a search                                       *)
(***************************************************************************)
Digits == <<"0","1","2","3","4","5","6","7","8","9">>

\* the limit searchCandidateSongs passes to sdk.search
SearchLimit == 10

\* the cap of the candidate set
MaxCandidates == 50

\* track j of the answer to the k-th term: the k-th artist's j-th song
Track(k, j) ==
  [artist |-> <<"A", Digits[k + 1]>>, song |-> <<"S", Digits[j]>>]

\* SearchLimit tracks no other term's answer holds
FreshResults(k) == [j \in 1..SearchLimit |-> Track(k, j)]

\* an answer that repeats a track, and repeats tracks of the first term's answer
RepeatedResults == <<Track(1, 1), Track(1, 2), Track(1, 1)>>

\* the terms of a request whose answer may repeat tracks: the first ones
MaxRepeatedAnswers == 2

\* how sdk.search(term, ['track'], 'US', 10) can end for the k-th term:
\* it throws, or returns the items found; every call fails once the access
\* token has expired
SearchOutcomes(k, tokens) ==
  IF tokens = "valid"
    THEN {[ok |-> FALSE], [ok |-> TRUE, items |-> FreshResults(k)]}
           \cup (IF k <= MaxRepeatedAnswers
                   THEN {[ok |-> TRUE, items |-> RepeatedResults]} ELSE {})
    ELSE {[ok |-> FALSE]}

(***************************************************************************)
(* searchCandidateSongs                                                    *)
(***************************************************************************)
\* faulty variant: a failed search discards what the earlier terms found
pushResults_dropOnError(candidateSongs, searchResults) ==
  IF ~searchResults.ok THEN <<>>
  ELSE candidateSongs \o [i \in 1..Len(searchResults.items) |->
         [artist |-> searchResults.items[i].artist,
          song |-> searchResults.items[i].song]]

\* the loop body for one term: the tracks pushed on candidateSongs
pushResults(candidateSongs, searchResults) ==
  IF ~searchResults.ok THEN candidateSongs
  ELSE candidateSongs \o [i \in 1..Len(searchResults.items) |->
         [artist |-> searchResults.items[i].artist,
          song |-> searchResults.items[i].song]]

\* candidateSongs.filter((song, index, self) => index === self.findIndex(...))
uniqueSongs(candidateSongs) ==
  LET first(i) == Min({j \in 1..Len(candidateSongs) :
                         /\ candidateSongs[j].artist = candidateSongs[i].artist
                         /\ candidateSongs[j].song = candidateSongs[i].song})
      F[i \in 0..Len(candidateSongs)] ==
        IF i = 0 THEN <<>>
        ELSE IF first(i) = i THEN Append(F[i - 1], candidateSongs[i])
        ELSE F[i - 1]
  IN  F[Len(candidateSongs)]

\* Array.prototype.slice(0, n)
sliceTo(arr, n) == SubSeq(arr, 1, IF Len(arr) < n THEN Len(arr) ELSE n)

\* faulty variant: the cut is made before the duplicates are removed
searchCandidateSongsResult_sliceFirst(candidateSongs) ==
  uniqueSongs(sliceTo(candidateSongs, MaxCandidates))

\* what searchCandidateSongs returns once every term was searched
searchCandidateSongsResult(candidateSongs) ==
  sliceTo(uniqueSongs(candidateSongs), MaxCandidates)

(***************************************************************************)
(* /api/chat                                                               *)
(***************************************************************************)
MaxTokens == 1000

\* sampling temperatures, in tenths
TemperatureEconomy == 3

TemperatureAccurate == 2

TemperatureBasic == 7

modelConfig(model) ==
  IF model = GPT35
    THEN [maxTokens |-> MaxTokens, temperature |-> TemperatureEconomy]
    ELSE [maxTokens |-> MaxTokens, temperature |-> TemperatureAccurate]

systemMessage ==
  [role |-> "system",
   content |-> IF build = "hybrid" THEN SYSTEM_hybrid ELSE SYSTEM_basic]

candidateLine(song) ==
  <<"BULLET", " ">> \o song.artist \o <<" ", "-", " ">> \o song.song

enhancedMessage(message, candidateSongs) ==
  IF Len(candidateSongs) > 0
    THEN message \o candidateHeader
           \o join([i \in 1..Len(candidateSongs) |-> candidateLine(candidateSongs[i])],
                   <<"LF">>)
           \o candidateFooter
    ELSE message

\* an absent conversationHistory (a stored history is never empty)
NoHistory == <<>>

NoReq == [kind |-> "none"]

NoResponse == [status |-> 0, kind |-> "none"]

\* lines 503-559 of the hybrid handler, run without suspension once the
\* candidates are known: push the user message, pick the model, build the request
openaiRequestFor(history, message, wantsPlaylist, candidateSongs) ==
  LET pushed == Append(history, [role |-> "user", content |-> message])
      selectedModel == selectOptimalModel(wantsPlaylist, Len(candidateSongs) > 0, pushed)
      config == modelConfig(selectedModel)
      messagesSent ==
        IF Len(candidateSongs) > 0
          THEN Append(SubSeq(pushed, 1, Len(pushed) - 1),
                      [role |-> "user",
                       content |-> enhancedMessage(message, candidateSongs)])
          ELSE pushed
  IN  [model |-> selectedModel, messages |-> messagesSent,
       max_tokens |-> config.maxTokens, temperature |-> config.temperature]

\* the request of the basic entry file
basicRequestFor(history, message) ==
  [model |-> GPT35,
   messages |-> Append(history, [role |-> "user", content |-> message]),
   max_tokens |-> MaxTokens, temperature |-> TemperatureBasic]

\* faulty variant: the utterance is not stored
pushUser_skip(history, message) == history

pushUser(history, message) == Append(history, [role |-> "user", content |-> message])

\* faulty variant: the reply overwrites the last entry instead of being appended
pushAssistant_overwriteLast(history, aiResponse) ==
  [history EXCEPT ![Len(history)] = [role |-> "assistant", content |-> aiResponse]]

pushAssistant(history, aiResponse) ==
  Append(history, [role |-> "assistant", content |-> aiResponse])

\* if (!req.session.conversationHistory) req.session.conversationHistory = [system]
\* faulty variant: every request starts the history afresh
seeded_always(history) == <<systemMessage>>

seeded(history) == IF history = NoHistory THEN <<systemMessage>> ELSE history

\* the record kept of an accepted chat turn: the utterance submitted, the length
\* of the history the turn started from (seeded), how its reply-generating call
\* ended ("pending", "returned", "threw") with the text returned, and the status of
\* the response sent (0: none yet)
NewTurn(message, history) ==
  [message |-> message, before |-> Len(history),
   completion |-> "pending", reply |-> <<>>, status |-> 0]

Init ==
  /\ build \in {"hybrid", "basic"}
  /\ session = [spotifyTokens |-> NULL, conversationHistory |-> NoHistory]
  /\ pc = "idle"
  /\ req = NoReq
  /\ response = NoResponse
  /\ playlists = <<>>
  /\ calls = <<>>
  /\ turns = <<>>
  /\ sel = NULL
  /\ messages = <<>>

\* /auth/spotify/callback with a good code: the tokens are stored in the session
Login ==
  /\ pc = "idle"
  /\ session.spotifyTokens # "valid"
  /\ session' = [session EXCEPT !.spotifyTokens = "valid"]
  /\ UNCHANGED <<build, pc, req, response, playlists, calls, turns, sel>>

\* the access token reaches the end of its lifetime (between two requests: within
\* a request it shows as the failure of the Spotify calls still to be made)
TokenExpires ==
  /\ pc = "idle"
  /\ session.spotifyTokens = "valid"
  /\ session' = [session EXCEPT !.spotifyTokens = "expired"]
  /\ UNCHANGED <<build, pc, req, response, playlists, calls, turns, sel>>

\* /api/auth/logout: req.session.destroy
Logout ==
  /\ pc = "idle"
  /\ session.spotifyTokens # NULL
  /\ session' = [spotifyTokens |-> NULL, conversationHistory |-> NoHistory]
  /\ response' = [status |-> 200, kind |-> "logout"]
  /\ turns' = <<>>
  /\ UNCHANGED <<build, pc, req, playlists, calls, sel>>

\* faulty variant: the history is seeded before the message is validated
ChatRequest_seedBeforeValidation(body) ==
  /\ pc = "idle"
  /\ IF session.spotifyTokens = NULL
       THEN /\ response' = [status |-> 401, kind |-> "chat", error |-> "Not authenticated"]
            /\ UNCHANGED <<build, session, pc, req, playlists, calls, turns, sel>>
     ELSE IF "message" \notin DOMAIN body \/ body.message = <<>>
       THEN /\ response' = [status |-> 400, kind |-> "chat", error |-> "Message is required"]
            /\ session' = [session EXCEPT !.conversationHistory = seeded(@)]
            /\ UNCHANGED <<build, pc, req, playlists, calls, turns, sel>>
     ELSE
       /\ Len(turns) < MaxTurns
       /\ LET history == seeded(session.conversationHistory)
              message == body.message
          IN  IF build = "hybrid"
                THEN /\ session' = [session EXCEPT !.conversationHistory = history]
                     /\ req' = [kind |-> "chat", message |-> message]
                     /\ pc' = "intent"
                ELSE /\ session' = [session EXCEPT
                                      !.conversationHistory = pushUser(history, message)]
                     /\ req' = [kind |-> "chat", message |-> message,
                                wantsPlaylist |-> FALSE, searchTerms |-> <<>>,
                                searched |-> <<>>, candidateSongs |-> <<>>,
                                openaiRequest |-> basicRequestFor(history, message)]
                     /\ pc' = "completion"
       /\ turns' = Append(turns, NewTurn(body.message, seeded(session.conversationHistory)))
       /\ response' = NoResponse
       /\ UNCHANGED <<build, playlists, calls, sel>>

\* the handler up to its first suspension
ChatRequest(body) ==
  /\ pc = "idle"
  /\ IF session.spotifyTokens = NULL
       THEN /\ response' = [status |-> 401, kind |-> "chat", error |-> "Not authenticated"]
            /\ UNCHANGED <<build, session, pc, req, playlists, calls, turns, sel>>
     ELSE IF "message" \notin DOMAIN body \/ body.message = <<>>
       THEN /\ response' = [status |-> 400, kind |-> "chat", error |-> "Message is required"]
            /\ UNCHANGED <<build, session, pc, req, playlists, calls, turns, sel>>
     ELSE
       /\ Len(turns) < MaxTurns
       /\ LET history == seeded(session.conversationHistory)
              message == body.message
          IN  IF build = "hybrid"
                THEN /\ session' = [session EXCEPT !.conversationHistory = history]
                     /\ req' = [kind |-> "chat", message |-> message]
                     /\ pc' = "intent"
                ELSE /\ session' = [session EXCEPT
                                      !.conversationHistory = pushUser(history, message)]
                     /\ req' = [kind |-> "chat", message |-> message,
                                wantsPlaylist |-> FALSE, searchTerms |-> <<>>,
                                searched |-> <<>>, candidateSongs |-> <<>>,
                                openaiRequest |-> basicRequestFor(history, message)]
                     /\ pc' = "completion"
       /\ turns' = Append(turns, NewTurn(body.message, seeded(session.conversationHistory)))
       /\ response' = NoResponse
       /\ UNCHANGED <<build, playlists, calls, sel>>

\* faulty variant: the message pushed on the history is the enhanced one
SendCompletion_persistEnhanced(wantsPlaylist, searched, candidateSongs) ==
  /\ session' = [session EXCEPT
                   !.conversationHistory =
                     pushUser(session.conversationHistory,
                              enhancedMessage(req.message, candidateSongs))]
  /\ req' = [kind |-> "chat", message |-> req.message,
             wantsPlaylist |-> wantsPlaylist,
             searchTerms |-> IF wantsPlaylist THEN req.searchTerms ELSE <<>>,
             searched |-> searched, candidateSongs |-> candidateSongs,
             openaiRequest |-> openaiRequestFor(session.conversationHistory, req.message,
                                                wantsPlaylist, candidateSongs)]
  /\ pc' = "completion"
  /\ UNCHANGED turns

\* lines 503-564, entered when the candidates are known
SendCompletion(wantsPlaylist, searched, candidateSongs) ==
  /\ session' = [session EXCEPT
                   !.conversationHistory = pushUser(session.conversationHistory, req.message)]
  /\ req' = [kind |-> "chat", message |-> req.message,
             wantsPlaylist |-> wantsPlaylist,
             searchTerms |-> IF wantsPlaylist THEN req.searchTerms ELSE <<>>,
             searched |-> searched, candidateSongs |-> candidateSongs,
             openaiRequest |-> openaiRequestFor(session.conversationHistory, req.message,
                                                wantsPlaylist, candidateSongs)]
  /\ pc' = "completion"
  /\ UNCHANGED turns

\* faulty variant: the candidate search is made whatever the classifier answered
IntentReturns_alwaysSearch(intentAnalysis) ==
  /\ pc = "intent"
  /\ LET wantsPlaylist == shouldGeneratePlaylist(req.message, intentAnalysis)
     IN  /\ req' = [kind |-> "chat", message |-> req.message,
                    wantsPlaylist |-> wantsPlaylist,
                    searchTerms |-> extractSearchTerms(req.message),
                    searched |-> <<>>, candidateSongs |-> <<>>]
         /\ pc' = "search"
         /\ UNCHANGED <<session, turns>>
  /\ UNCHANGED <<build, response, playlists, calls, sel>>

\* the intent call of shouldGeneratePlaylist returns or throws
IntentReturns(intentAnalysis) ==
  /\ pc = "intent"
  /\ LET wantsPlaylist == shouldGeneratePlaylist(req.message, intentAnalysis)
     IN  IF wantsPlaylist
           THEN /\ req' = [kind |-> "chat", message |-> req.message,
                           wantsPlaylist |-> TRUE,
                           searchTerms |-> extractSearchTerms(req.message),
                           searched |-> <<>>, candidateSongs |-> <<>>]
                /\ pc' = "search"
                /\ UNCHANGED <<session, turns>>
           ELSE SendCompletion(FALSE, <<>>, <<>>)
  /\ UNCHANGED <<build, response, playlists, calls, sel>>

\* sdk.search of the next term of searchCandidateSongs returns or throws; after
\* the last term the handler runs on to the reply-generating call
SearchReturns ==
  /\ pc = "search"
  /\ \E searchResults \in SearchOutcomes(Len(req.searched) + 1, session.spotifyTokens) :
       LET candidateSongs == pushResults(req.candidateSongs, searchResults)
       IN  IF Len(req.searched) + 1 < Len(req.searchTerms)
             THEN /\ req' = [req EXCEPT !.searched = Append(@, searchResults),
                                        !.candidateSongs = candidateSongs]
                  /\ UNCHANGED <<session, pc, turns>>
             ELSE SendCompletion(TRUE, Append(req.searched, searchResults),
                                 searchCandidateSongsResult(candidateSongs))
  /\ UNCHANGED <<build, response, playlists, calls, sel>>

\* faulty variant: a failed call leaves an empty assistant entry behind
CompletionReturns_pushOnError(completion) ==
  /\ pc = "completion"
  /\ IF ~completion.ok
       THEN /\ session' = [session EXCEPT
                             !.conversationHistory = pushAssistant(@, <<>>)]
            /\ response' = [status |-> 500, kind |-> "chat",
                            error |-> "Failed to process chat message"]
            /\ turns' = [turns EXCEPT ![Len(turns)].status = 500,
                                      ![Len(turns)].completion = "threw"]
       ELSE /\ session' = [session EXCEPT
                             !.conversationHistory = pushAssistant(@, completion.content)]
            /\ response' = [status |-> 200, kind |-> "chat",
                            message |-> completion.content]
            /\ turns' = [turns EXCEPT ![Len(turns)].status = 200,
                                      ![Len(turns)].completion = "returned",
                                      ![Len(turns)].reply = completion.content]
  /\ pc' = "idle"
  /\ req' = NoReq
  /\ UNCHANGED <<build, playlists, calls, sel>>

\* the reply-generating call returns or throws
CompletionReturns(completion) ==
  /\ pc = "completion"
  /\ IF ~completion.ok
       THEN /\ response' = [status |-> 500, kind |-> "chat",
                            error |-> "Failed to process chat message"]
            /\ turns' = [turns EXCEPT ![Len(turns)].status = 500,
                                      ![Len(turns)].completion = "threw"]
            /\ UNCHANGED session
       ELSE /\ session' = [session EXCEPT
                             !.conversationHistory = pushAssistant(@, completion.content)]
            /\ response' = [status |-> 200, kind |-> "chat",
                            message |-> completion.content]
            /\ turns' = [turns EXCEPT ![Len(turns)].status = 200,
                                      ![Len(turns)].completion = "returned",
                                      ![Len(turns)].reply = completion.content]
  /\ pc' = "idle"
  /\ req' = NoReq
  /\ UNCHANGED <<build, playlists, calls, sel>>

NextChat ==
  \/ Login /\ UNCHANGED messages
  \/ TokenExpires /\ UNCHANGED messages
  \/ Logout /\ UNCHANGED messages
  \/ \E body \in ChatBodies : ChatRequest(body) /\ UNCHANGED messages
  \/ \E intentAnalysis \in IntentOutcomes : IntentReturns(intentAnalysis) /\ UNCHANGED messages
  \/ SearchReturns /\ UNCHANGED messages
  \/ \E completion \in CompletionOutcomes : CompletionReturns(completion) /\ UNCHANGED messages

Spec == Init /\ [][NextChat]_vars

(***************************************************************************)
(* /api/create-playlist                                                    *)
(***************************************************************************)
\* track:"
STR_trackOpen ==
  <<"t","r","a","c","k",":","\"">>

\* " artist:"
STR_artistOpen ==
  <<"\""," ","a","r","t","i","s","t",":","\"">>

\* the closing quote of the primary query
STR_quote ==
  <<"\"">>

\* the playlist name a client submits: Mix
NAME_mix ==
  <<"M","i","x">>

\* entries of the songs array a client submits
MaxSongs == 2

\* playlists the catalog of the user can hold
MaxPlaylists == 1

\* the (artist, song) entries of a songs array; JSON also carries null
Pairs ==
  {[artist |-> <<"A">>, song |-> <<"B">>], [artist |-> <<"C">>, song |-> <<"D">>]}

NullEntry == [null |-> TRUE]

SongLists == UNION {[1..n -> Pairs \cup {NullEntry}] : n \in 0..MaxSongs}

\* the bodies of a create-playlist request: well-formed ones, and the ones with
\* an empty or absent playlistName, an absent songs, a songs that is not an array
CreatePlaylistBodies ==
  {[playlistName |-> NAME_mix, songs |-> [array |-> l]] : l \in SongLists}
    \cup {[playlistName |-> <<>>, songs |-> [array |-> <<>>]],
          [songs |-> [array |-> <<>>]],
          [playlistName |-> NAME_mix],
          [playlistName |-> NAME_mix, songs |-> [text |-> <<"x">>]]}

isArray(v) == "array" \in DOMAIN v

\* track:"<song>" artist:"<artist>"
searchQuery(song) ==
  STR_trackOpen \o song.song \o STR_artistOpen \o song.artist \o STR_quote

\* <song> <artist>
fallbackQuery(song) == song.song \o <<" ">> \o song.artist

\* the uri of the first track the catalog returns for an entry
TrackUri(song) == [artist |-> song.artist, song |-> song.song]

\* how a Spotify call without a result of interest can end
CallOutcomes(tokens) ==
  IF tokens = "valid" THEN {[ok |-> TRUE], [ok |-> FALSE]} ELSE {[ok |-> FALSE]}

\* how sdk.search(query, ['track'], 'US', 1) can end for an entry: with its
\* track, with no item, or by throwing
TrackSearchOutcomes(song, tokens) ==
  IF tokens = "valid"
    THEN {[ok |-> TRUE, items |-> <<TrackUri(song)>>], [ok |-> TRUE, items |-> <<>>],
          [ok |-> FALSE, items |-> <<>>]}
    ELSE {[ok |-> FALSE, items |-> <<>>]}

Call(api, query, outcome, found) ==
  [api |-> api, query |-> query, ok |-> outcome.ok, found |-> found]

\* the local playlist before sdk.playlists.createPlaylist has returned
NoPlaylist == [id |-> 0, name |-> <<>>]

createPlaylistFailed ==
  [status |-> 500, kind |-> "create-playlist", error |-> "Failed to create playlist"]

\* res.json({ playlist: {...} })
playlistResult(playlist, trackUris, songs) ==
  [status |-> 200, kind |-> "create-playlist",
   playlist |-> [id |-> playlist.id, name |-> playlist.name,
                 tracksAdded |-> Len(trackUris), totalRequested |-> Len(songs)]]

\* the handler up to its first suspension
CreatePlaylistRequest(body) ==
  /\ pc = "idle"
  /\ calls' = <<>>
  /\ IF session.spotifyTokens = NULL
       THEN /\ response' = [status |-> 401, kind |-> "create-playlist",
                            error |-> "Not authenticated"]
            /\ req' = NoReq
            /\ pc' = "idle"
     ELSE IF \/ "playlistName" \notin DOMAIN body
             \/ body.playlistName = <<>>
             \/ "songs" \notin DOMAIN body
             \/ ~isArray(body.songs)
       THEN /\ response' = [status |-> 400, kind |-> "create-playlist",
                            error |-> "Playlist name and songs array are required"]
            /\ req' = NoReq
            /\ pc' = "idle"
     ELSE /\ Len(playlists) < MaxPlaylists
          /\ req' = [playlistName |-> body.playlistName, songs |-> body.songs.array,
                     playlist |-> NoPlaylist, trackUris |-> <<>>, i |-> 0]
          /\ pc' = "profile"
          /\ response' = NoResponse
  /\ UNCHANGED <<build, session, playlists, turns, sel>>

\* faulty variant: addItemsToPlaylist is called even with no track collected
ResolveFrom_alwaysAdd(playlist, i, trackUris, log) ==
  /\ calls' = log
  /\ req' = [req EXCEPT !.playlist = playlist, !.i = i, !.trackUris = trackUris]
  /\ IF i > Len(req.songs)
       THEN /\ pc' = "addItems"
            /\ UNCHANGED response
     ELSE IF "song" \notin DOMAIN req.songs[i]
       THEN /\ response' = createPlaylistFailed
            /\ pc' = "idle"
     ELSE /\ pc' = "primary"
          /\ UNCHANGED response

\* the for loop from entry i on, up to the next suspension, or to the response
\* when it ends without one; log is the list of the calls issued so far
ResolveFrom(playlist, i, trackUris, log) ==
  /\ calls' = log
  /\ req' = [req EXCEPT !.playlist = playlist, !.i = i, !.trackUris = trackUris]
  /\ IF i > Len(req.songs)
       THEN IF Len(trackUris) > 0
              THEN /\ pc' = "addItems"
                   /\ UNCHANGED response
              ELSE /\ response' = playlistResult(playlist, trackUris, req.songs)
                   /\ pc' = "idle"
     \* a null entry: song.song throws, and so does the catch block's song.artist
     ELSE IF "song" \notin DOMAIN req.songs[i]
       THEN /\ response' = createPlaylistFailed
            /\ pc' = "idle"
     ELSE /\ pc' = "primary"
          /\ UNCHANGED response

\* sdk.currentUser.profile() returns or throws
ProfileReturns ==
  /\ pc = "profile"
  /\ \E outcome \in CallOutcomes(session.spotifyTokens) :
       /\ calls' = Append(calls, Call("profile", <<>>, outcome, 0))
       /\ IF outcome.ok
            THEN /\ pc' = "createPlaylist"
                 /\ UNCHANGED response
            ELSE /\ response' = createPlaylistFailed
                 /\ pc' = "idle"
  /\ UNCHANGED <<build, session, req, playlists, turns, sel>>

\* sdk.playlists.createPlaylist returns the new private playlist or throws
CreatePlaylistReturns ==
  /\ pc = "createPlaylist"
  /\ \E outcome \in CallOutcomes(session.spotifyTokens) :
       LET log == Append(calls, Call("createPlaylist", req.playlistName, outcome, 0))
           id == Len(playlists) + 1
       IN  IF outcome.ok
             THEN /\ playlists' = Append(playlists,
                                         [id |-> id, name |-> req.playlistName,
                                          public |-> FALSE, tracks |-> <<>>])
                  /\ ResolveFrom([id |-> id, name |-> req.playlistName], 1, <<>>, log)
             ELSE /\ calls' = log
                  /\ response' = createPlaylistFailed
                  /\ pc' = "idle"
                  /\ UNCHANGED <<req, playlists>>
  /\ UNCHANGED <<build, session, turns, sel>>

\* faulty variant: a throwing primary search reaches the outer catch
PrimarySearchReturns_failCall ==
  /\ pc = "primary"
  /\ \E searchResults \in TrackSearchOutcomes(req.songs[req.i], session.spotifyTokens) :
     LET song == req.songs[req.i]
         log == Append(calls, Call("search", searchQuery(song), searchResults,
                                   Len(searchResults.items)))
     IN  IF ~searchResults.ok
           THEN /\ calls' = log
                /\ response' = createPlaylistFailed
                /\ pc' = "idle"
                /\ UNCHANGED req
         ELSE IF Len(searchResults.items) > 0
           THEN ResolveFrom(req.playlist, req.i + 1,
                            Append(req.trackUris, searchResults.items[1]), log)
         ELSE /\ calls' = log
              /\ pc' = "fallback"
              /\ UNCHANGED <<req, response>>
  /\ UNCHANGED <<build, session, playlists, turns, sel>>

\* faulty variant: a primary search that throws is followed by the fallback search
PrimarySearchReturns_fallbackOnError ==
  /\ pc = "primary"
  /\ \E searchResults \in TrackSearchOutcomes(req.songs[req.i], session.spotifyTokens) :
     LET song == req.songs[req.i]
         log == Append(calls, Call("search", searchQuery(song), searchResults,
                                   Len(searchResults.items)))
     IN  IF searchResults.ok /\ Len(searchResults.items) > 0
           THEN ResolveFrom(req.playlist, req.i + 1,
                            Append(req.trackUris, searchResults.items[1]), log)
         ELSE /\ calls' = log
              /\ pc' = "fallback"
              /\ UNCHANGED <<req, response>>
  /\ UNCHANGED <<build, session, playlists, turns, sel>>

\* the primary search of entry i returns or throws
PrimarySearchReturns ==
  /\ pc = "primary"
  /\ \E searchResults \in TrackSearchOutcomes(req.songs[req.i], session.spotifyTokens) :
     LET song == req.songs[req.i]
         log == Append(calls, Call("search", searchQuery(song), searchResults,
                                   Len(searchResults.items)))
     IN  IF ~searchResults.ok
           THEN ResolveFrom(req.playlist, req.i + 1, req.trackUris, log)
         ELSE IF Len(searchResults.items) > 0
           THEN ResolveFrom(req.playlist, req.i + 1,
                            Append(req.trackUris, searchResults.items[1]), log)
         ELSE /\ calls' = log
              /\ pc' = "fallback"
              /\ UNCHANGED <<req, response>>
  /\ UNCHANGED <<build, session, playlists, turns, sel>>

\* faulty variant: the track of the fallback search is put in front of the others
FallbackSearchReturns_prepend ==
  /\ pc = "fallback"
  /\ \E fallbackResults \in TrackSearchOutcomes(req.songs[req.i], session.spotifyTokens) :
     LET song == req.songs[req.i]
         log == Append(calls, Call("search", fallbackQuery(song), fallbackResults,
                                   Len(fallbackResults.items)))
     IN  IF fallbackResults.ok /\ Len(fallbackResults.items) > 0
           THEN ResolveFrom(req.playlist, req.i + 1,
                            <<fallbackResults.items[1]>> \o req.trackUris, log)
           ELSE ResolveFrom(req.playlist, req.i + 1, req.trackUris, log)
  /\ UNCHANGED <<build, session, playlists, turns, sel>>

\* the fallback search of entry i returns or throws
FallbackSearchReturns ==
  /\ pc = "fallback"
  /\ \E fallbackResults \in TrackSearchOutcomes(req.songs[req.i], session.spotifyTokens) :
     LET song == req.songs[req.i]
         log == Append(calls, Call("search", fallbackQuery(song), fallbackResults,
                                   Len(fallbackResults.items)))
     IN  IF fallbackResults.ok /\ Len(fallbackResults.items) > 0
           THEN ResolveFrom(req.playlist, req.i + 1,
                            Append(req.trackUris, fallbackResults.items[1]), log)
           ELSE ResolveFrom(req.playlist, req.i + 1, req.trackUris, log)
  /\ UNCHANGED <<build, session, playlists, turns, sel>>

\* sdk.playlists.addItemsToPlaylist returns or throws
AddItemsReturns ==
  /\ pc = "addItems"
  /\ \E outcome \in CallOutcomes(session.spotifyTokens) :
       /\ calls' = Append(calls, Call("addItemsToPlaylist", <<>>, outcome,
                                      Len(req.trackUris)))
       /\ IF outcome.ok
            THEN /\ playlists' = [playlists EXCEPT ![req.playlist.id].tracks =
                                                     @ \o req.trackUris]
                 /\ response' = playlistResult(req.playlist, req.trackUris, req.songs)
            ELSE /\ response' = createPlaylistFailed
                 /\ UNCHANGED playlists
  /\ pc' = "idle"
  /\ UNCHANGED <<build, session, req, turns, sel>>

NextMaterialize ==
  \/ Login /\ UNCHANGED messages
  \/ TokenExpires /\ UNCHANGED messages
  \/ Logout /\ UNCHANGED messages
  \/ \E body \in CreatePlaylistBodies : CreatePlaylistRequest(body) /\ UNCHANGED messages
  \/ ProfileReturns /\ UNCHANGED messages
  \/ CreatePlaylistReturns /\ UNCHANGED messages
  \/ PrimarySearchReturns /\ UNCHANGED messages
  \/ FallbackSearchReturns /\ UNCHANGED messages
  \/ AddItemsReturns /\ UNCHANGED messages

SpecMaterialize == Init /\ [][NextMaterialize]_vars

(***************************************************************************)
(* chatMutation.onSuccess: the playlist extractor of the chat page         *)
(***************************************************************************)
\* [PLAYLIST_DATA]
STR_open ==
  <<"[","P","L","A","Y","L","I","S","T","_","D","A","T","A","]">>

\* [/PLAYLIST_DATA]
STR_close ==
  <<"[","/","P","L","A","Y","L","I","S","T","_","D","A","T","A","]">>

\* F applied to the value of v: v is evaluated once, however often F uses it
With(v, F(_)) == CHOOSE r \in {F(x) : x \in {v}} : TRUE

\* String.prototype.indexOf(t, from), 1-based; 0 when t does not occur
indexOf(s, t, from) ==
  LET hits == {i \in from..(Len(s) - Len(t) + 1) : SubSeq(s, i, i + Len(t) - 1) = t}
  IN  IF hits = {} THEN 0 ELSE Min(hits)

\* the first position at or after p that holds no whitespace (Len(s) + 1 if none)
skipWs(s, p) == p + WsRun(s, p)

charAt(s, p) == IF p >= 1 /\ p <= Len(s) THEN s[p] ELSE "EOF"

\* /\[PLAYLIST_DATA\]([\s\S]*?)\[\/PLAYLIST_DATA\]/ on s: the first opening
\* sentinel, then the nearest closing sentinel after it
playlistDataMatch(s) ==
  LET open == indexOf(s, STR_open, 1)
      close == IF open = 0 THEN 0 ELSE indexOf(s, STR_close, open + Len(STR_open))
  IN  IF close = 0 THEN NoMatch
      ELSE [found |-> TRUE, start |-> open, end |-> close + Len(STR_close) - 1,
            group |-> SubSeq(s, open + Len(STR_open), close - 1)]

\* replace(/\[PLAYLIST_DATA\][\s\S]*?\[\/PLAYLIST_DATA\]/g, '')
RECURSIVE removeBlocks(_)
removeBlocks(s) ==
  LET m == playlistDataMatch(s)
  IN  IF ~m.found THEN s
      ELSE SubSeq(s, 1, m.start - 1) \o removeBlocks(SubSeq(s, m.end + 1, Len(s)))

\* \[\s*\{ matches s at p
arrayStart(s, p) == charAt(s, p) = "[" /\ charAt(s, skipWs(s, p + 1)) = "{"

\* the rest of /\[\s*\{[\s\S]*?\}\s*(?:,\s*\{[\s\S]*?\}\s*)*\]/ from position r,
\* reached after a "}" and the whitespace behind it: the greedy group is tried
\* first, its lazy interior ending at the nearest "}" from which the rest
\* matches; then the closing "]".  The position of that "]", or 0.
RECURSIVE afterObject(_, _)
afterObject(s, r) ==
  LET q == skipWs(s, r + 1)
      ends == IF charAt(s, r) = "," /\ charAt(s, q) = "{"
                THEN {e \in (q + 1)..Len(s) :
                        s[e] = "}" /\ afterObject(s, skipWs(s, e + 1)) # 0}
                ELSE {}
  IN  IF ends # {} THEN afterObject(s, skipWs(s, Min(ends) + 1))
      ELSE IF charAt(s, r) = "]" THEN r
      ELSE 0

\* the pattern anchored at p: the position of its closing "]", or 0
jsonMatchAt(s, p) ==
  IF ~arrayStart(s, p) THEN 0
  ELSE LET q == skipWs(s, p + 1)
           ends == {e \in (q + 1)..Len(s) :
                      s[e] = "}" /\ afterObject(s, skipWs(s, e + 1)) # 0}
       IN  IF ends = {} THEN 0 ELSE afterObject(s, skipWs(s, Min(ends) + 1))

\* message.match(/\[\s*\{[\s\S]*?\}\s*(?:,\s*\{[\s\S]*?\}\s*)*\]/)
jsonMatch(s) ==
  LET starts == {p \in 1..Len(s) : jsonMatchAt(s, p) # 0}
  IN  IF starts = {} THEN NoMatch
      ELSE [found |-> TRUE, start |-> Min(starts), end |-> jsonMatchAt(s, Min(starts)),
            group |-> SubSeq(s, Min(starts), jsonMatchAt(s, Min(starts)))]

\* replace(/\[\s*\{[\s\S]*$/m, ''): everything from the first "[ {" on goes
removeIncompleteJson(s) ==
  LET starts == {p \in 1..Len(s) : arrayStart(s, p)}
  IN  IF starts = {} THEN s ELSE SubSeq(s, 1, Min(starts) - 1)

\* ^ and $ under the m flag
lineStart(s, p) == p = 1 \/ s[p - 1] = "LF"

lineEnd(s, r) == r = Len(s) + 1 \/ s[r] = "LF"

\* /^\s*\[[\s\S]*?\]\s*$/m anchored at p: the position after the match, or 0.
\* The lazy interior stops at the nearest "]" that whitespace alone separates
\* from an end of line; the greedy \s* behind it runs to the last such end.
standaloneArrayAt(s, p) ==
  LET b == skipWs(s, p)
      stops(e) == {r \in (e + 1)..skipWs(s, e + 1) : lineEnd(s, r)}
      ends == {e \in (b + 1)..Len(s) : s[e] = "]" /\ stops(e) # {}}
  IN  IF lineStart(s, p) /\ charAt(s, b) = "[" /\ ends # {}
        THEN Max(stops(Min(ends)))
        ELSE 0

\* replace(/^\s*\[[\s\S]*?\]\s*$/gm, '') from position p on
RECURSIVE removeStandaloneArrays(_, _)
removeStandaloneArrays(s, p) ==
  LET starts == {k \in p..Len(s) : standaloneArrayAt(s, k) # 0}
  IN  IF starts = {} THEN SubSeq(s, p, Len(s))
      ELSE SubSeq(s, p, Min(starts) - 1)
             \o removeStandaloneArrays(s, standaloneArrayAt(s, Min(starts)))

\* /^\s*\n+/m anchored at p: the position of the last line feed of the
\* whitespace run that starts at p, or 0 when the run holds none
blankLinesAt(s, p) ==
  LET feeds == {k \in p..(skipWs(s, p) - 1) : s[k] = "LF"}
  IN  IF lineStart(s, p) /\ feeds # {} THEN Max(feeds) ELSE 0

\* faulty variant: the blank lines are removed with their last line feed
RECURSIVE removeBlankLines_dropFeeds(_, _)
removeBlankLines_dropFeeds(s, p) ==
  LET starts == {k \in p..Len(s) : blankLinesAt(s, k) # 0}
  IN  IF starts = {} THEN SubSeq(s, p, Len(s))
      ELSE SubSeq(s, p, Min(starts) - 1)
             \o removeBlankLines_dropFeeds(s, blankLinesAt(s, Min(starts)) + 1)

\* replace(/^\s*\n+/gm, '\n') from position p on
RECURSIVE removeBlankLines(_, _)
removeBlankLines(s, p) ==
  LET starts == {k \in p..Len(s) : blankLinesAt(s, k) # 0}
  IN  IF starts = {} THEN SubSeq(s, p, Len(s))
      ELSE SubSeq(s, p, Min(starts) - 1) \o <<"LF">>
             \o removeBlankLines(s, blankLinesAt(s, Min(starts)) + 1)

\* String.prototype.replace(t, '') with a string pattern: the first occurrence
removeFirst(s, t) ==
  LET i == indexOf(s, t, 1)
  IN  IF i = 0 THEN s ELSE SubSeq(s, 1, i - 1) \o SubSeq(s, i + Len(t), Len(s))

RECURSIVE removeAll(_, _)
removeAll(s, t) ==
  LET i == indexOf(s, t, 1)
  IN  IF i = 0 THEN s
      ELSE SubSeq(s, 1, i - 1) \o removeAll(SubSeq(s, i + Len(t), Len(s)), t)

\* faulty variant: the blank lines left behind are not squeezed
cleanUp_keepBlankLines(displayMessage) ==
  With(removeAll(displayMessage, STR_open), LAMBDA opened :
  With(removeAll(opened, STR_close), LAMBDA closed :
  With(removeIncompleteJson(closed), LAMBDA complete :
    trim(removeStandaloneArrays(complete, 1)))))

\* the "clean up any remaining artifacts" chain
cleanUp(displayMessage) ==
  With(removeAll(displayMessage, STR_open), LAMBDA opened :
  With(removeAll(opened, STR_close), LAMBDA closed :
  With(removeIncompleteJson(closed), LAMBDA complete :
  With(removeStandaloneArrays(complete, 1), LAMBDA prose :
    trim(removeBlankLines(prose, 1))))))

\* artist
KEY_artist ==
  <<"a","r","t","i","s","t">>

\* song
KEY_song ==
  <<"s","o","n","g">>

\* JSON.parse, for texts built of strings without escapes, objects and arrays
\* (the values a playlist block holds); any other text is a SyntaxError.
\* A value is [type, v]: a "string" with its characters, an "array" with its
\* elements, an "object" with the function from its keys to their values.
\* Every parser returns [ok, value, next], next the position behind the value.
ParseError == [ok |-> FALSE, value |-> <<>>, next |-> 0]

Parsed(type, v, next) == [ok |-> TRUE, value |-> [type |-> type, v |-> v], next |-> next]

parseString(s, p) ==
  LET quotes == {k \in (p + 1)..Len(s) : s[k] = "\""}
  IN  IF charAt(s, p) # "\"" \/ quotes = {} THEN ParseError
      ELSE IF \E k \in (p + 1)..(Min(quotes) - 1) : s[k] = "LF" THEN ParseError
      ELSE Parsed("string", SubSeq(s, p + 1, Min(quotes) - 1), Min(quotes) + 1)

RECURSIVE parseValue(_, _)
RECURSIVE parseMembers(_, _, _)
RECURSIVE parseElements(_, _, _)

\* the members of an object from position p on (p at a key), fields being the
\* members read so far; a key read twice keeps its last value
parseMembers(s, p, fields) ==
  LET key == parseString(s, p)
      colon == skipWs(s, key.next)
      val == parseValue(s, skipWs(s, colon + 1))
      after == skipWs(s, val.next)
      keys == DOMAIN fields \cup {key.value.v}
      read == [k \in keys |-> IF k = key.value.v THEN val.value ELSE fields[k]]
  IN  IF ~key.ok \/ charAt(s, colon) # ":" THEN ParseError
      ELSE IF ~val.ok THEN ParseError
      ELSE IF charAt(s, after) = "}" THEN Parsed("object", read, after + 1)
      ELSE IF charAt(s, after) = "," THEN parseMembers(s, skipWs(s, after + 1), read)
      ELSE ParseError

\* the elements of an array from position p on (p at a value)
parseElements(s, p, items) ==
  LET val == parseValue(s, p)
      after == skipWs(s, val.next)
  IN  IF ~val.ok THEN ParseError
      ELSE IF charAt(s, after) = "]"
        THEN Parsed("array", Append(items, val.value), after + 1)
      ELSE IF charAt(s, after) = ","
        THEN parseElements(s, skipWs(s, after + 1), Append(items, val.value))
      ELSE ParseError

parseValue(s, p) ==
  LET q == skipWs(s, p + 1)
  IN  IF charAt(s, p) = "\"" THEN parseString(s, p)
      ELSE IF charAt(s, p) = "{"
        THEN IF charAt(s, q) = "}" THEN Parsed("object", <<>>, q + 1)
             ELSE parseMembers(s, q, <<>>)
      ELSE IF charAt(s, p) = "["
        THEN IF charAt(s, q) = "]" THEN Parsed("array", <<>>, q + 1)
             ELSE parseElements(s, q, <<>>)
      ELSE ParseError

JSONparse(text) ==
  LET val == parseValue(text, skipWs(text, 1))
  IN  IF val.ok /\ skipWs(text, val.next) = Len(text) + 1 THEN val ELSE ParseError

\* value?.key is truthy: value is an object that holds key with a value other
\* than the empty string
hasTruthy(value, key) ==
  /\ value.type = "object"
  /\ key \in DOMAIN value.v
  /\ ~(value.v[key].type = "string" /\ value.v[key].v = <<>>)

\* Array.isArray(playlist) && playlist.length > 0 && playlist[0]?.artist &&
\* playlist[0]?.song, on the outcome of JSON.parse
looksLikePlaylist(parsed) ==
  /\ parsed.ok
  /\ parsed.value.type = "array"
  /\ Len(parsed.value.v) > 0
  /\ hasTruthy(parsed.value.v[1], KEY_artist)
  /\ hasTruthy(parsed.value.v[1], KEY_song)

\* chatMutation.onSuccess on data.message: what is displayed, whether a playlist
\* was found, and the playlist handed to setParsedPlaylist (the array as parsed)
onSuccess(message) ==
  With(playlistDataMatch(message), LAMBDA block :
  With(IF block.found THEN JSONparse(trim(block.group)) ELSE ParseError, LAMBDA fromBlock :
  With(jsonMatch(message), LAMBDA array :
  With(IF array.found THEN JSONparse(array.group) ELSE ParseError, LAMBDA fromArray :
  With(IF block.found /\ looksLikePlaylist(fromBlock)
         THEN trim(removeBlocks(message))
       ELSE IF array.found /\ looksLikePlaylist(fromArray)
         THEN trim(removeFirst(message, array.group))
       ELSE trim(removeIncompleteJson(message)), LAMBDA displayMessage :
  With(IF block.found /\ looksLikePlaylist(fromBlock) THEN fromBlock.value.v
       ELSE IF array.found /\ looksLikePlaylist(fromArray) THEN fromArray.value.v
       ELSE <<>>, LAMBDA playlist :
    [displayMessage |-> cleanUp(displayMessage),
     foundPlaylist |-> playlist # <<>>,
     parsedPlaylist |-> playlist]))))))

\* the replies the extractor is applied to: prose, a playlist block or a bare
\* array (well-formed, with an invalid record, cut off, not JSON), prose
\* ''
PRE_none ==
  <<>>

\* 'Go '
PRE_go ==
  <<"G","o"," ">>

\* 'Hi<LF><LF>'
PRE_hi ==
  <<"H","i","LF","LF">>

\* 'Hi<LF><LF><LF>you '
PRE_gap ==
  <<"H","i","LF","LF","LF","y","o","u"," ">>

\* ''
MID_none ==
  <<>>

\* '[PLAYLIST_DATA][{"artist":"A","song":"B"}][/PLAYLIST_DATA]'
MID_one ==
  <<"[","P","L","A","Y","L","I","S","T","_","D","A","T","A","]","[","{","\"","a","r","t","i","s","t","\"",":","\"","A","\"",",","\"","s","o","n","g","\"",":","\"","B","\"","}","]","[","/","P","L","A","Y","L","I","S","T","_","D","A","T","A","]">>

\* '[PLAYLIST_DATA][{"artist":"A","song":"B"},{"artist":"C","song":"D"}][/PLAYLIST_DATA]'
MID_two ==
  <<"[","P","L","A","Y","L","I","S","T","_","D","A","T","A","]","[","{","\"","a","r","t","i","s","t","\"",":","\"","A","\"",",","\"","s","o","n","g","\"",":","\"","B","\"","}",",","{","\"","a","r","t","i","s","t","\"",":","\"","C","\"",",","\"","s","o","n","g","\"",":","\"","D","\"","}","]","[","/","P","L","A","Y","L","I","S","T","_","D","A","T","A","]">>

\* '[PLAYLIST_DATA][{"artist":"","song":"B"},{"artist":"C","song":"D"}][/PLAYLIST_DATA]'
MID_badFirst ==
  <<"[","P","L","A","Y","L","I","S","T","_","D","A","T","A","]","[","{","\"","a","r","t","i","s","t","\"",":","\"","\"",",","\"","s","o","n","g","\"",":","\"","B","\"","}",",","{","\"","a","r","t","i","s","t","\"",":","\"","C","\"",",","\"","s","o","n","g","\"",":","\"","D","\"","}","]","[","/","P","L","A","Y","L","I","S","T","_","D","A","T","A","]">>

\* '[PLAYLIST_DATA][{"artist":"A","song":"B"},{"artist":"C"}][/PLAYLIST_DATA]'
MID_badLast ==
  <<"[","P","L","A","Y","L","I","S","T","_","D","A","T","A","]","[","{","\"","a","r","t","i","s","t","\"",":","\"","A","\"",",","\"","s","o","n","g","\"",":","\"","B","\"","}",",","{","\"","a","r","t","i","s","t","\"",":","\"","C","\"","}","]","[","/","P","L","A","Y","L","I","S","T","_","D","A","T","A","]">>

\* '[PLAYLIST_DATA][{"artist":"A"[/PLAYLIST_DATA]'
MID_cut ==
  <<"[","P","L","A","Y","L","I","S","T","_","D","A","T","A","]","[","{","\"","a","r","t","i","s","t","\"",":","\"","A","\"","[","/","P","L","A","Y","L","I","S","T","_","D","A","T","A","]">>

\* '[PLAYLIST_DATA]oops[/PLAYLIST_DATA]'
MID_oops ==
  <<"[","P","L","A","Y","L","I","S","T","_","D","A","T","A","]","o","o","p","s","[","/","P","L","A","Y","L","I","S","T","_","D","A","T","A","]">>

\* '[PLAYLIST_DATA]<LF>[ {"artist": "A", "song": "B"} ]<LF>[/PLAYLIST_DATA]'
MID_spaced ==
  <<"[","P","L","A","Y","L","I","S","T","_","D","A","T","A","]","LF","["," ","{","\"","a","r","t","i","s","t","\"",":"," ","\"","A","\"",","," ","\"","s","o","n","g","\"",":"," ","\"","B","\"","}"," ","]","LF","[","/","P","L","A","Y","L","I","S","T","_","D","A","T","A","]">>

\* '[{"artist":"A","song":"B"}]'
MID_bare ==
  <<"[","{","\"","a","r","t","i","s","t","\"",":","\"","A","\"",",","\"","s","o","n","g","\"",":","\"","B","\"","}","]">>

\* '[{"artist":"A"'
MID_bareCut ==
  <<"[","{","\"","a","r","t","i","s","t","\"",":","\"","A","\"">>

\* '[Chorus]'
MID_chorus ==
  <<"[","C","h","o","r","u","s","]">>

\* '[PLAYLIST_DATA][][/PLAYLIST_DATA]'
MID_empty ==
  <<"[","P","L","A","Y","L","I","S","T","_","D","A","T","A","]","[","]","[","/","P","L","A","Y","L","I","S","T","_","D","A","T","A","]">>

\* ''
SUF_none ==
  <<>>

\* ' now'
SUF_now ==
  <<" ","n","o","w">>

\* '<LF><LF>Enjoy'
SUF_enjoy ==
  <<"LF","LF","E","n","j","o","y">>

\* '<LF>'
SUF_feed ==
  <<"LF">>

ReplyPrefixes == {PRE_none, PRE_go, PRE_hi, PRE_gap}

ReplyMiddles ==
  {MID_none, MID_one, MID_two, MID_badFirst, MID_badLast, MID_cut, MID_oops, MID_spaced, MID_bare, MID_bareCut, MID_chorus, MID_empty}

ReplySuffixes == {SUF_none, SUF_now, SUF_enjoy, SUF_feed}

ExtractorReplies ==
  {pre \o mid \o suf : pre \in ReplyPrefixes, mid \in ReplyMiddles, suf \in ReplySuffixes}

ExtractCalls ==
  {[fn |-> "onSuccess", stage |-> "called", message |-> m] : m \in ExtractorReplies}

InitExtract ==
  /\ build = "hybrid"
  /\ session = [spotifyTokens |-> NULL, conversationHistory |-> NoHistory]
  /\ pc = "idle"
  /\ req = NoReq
  /\ response = NoResponse
  /\ playlists = <<>>
  /\ calls = <<>>
  /\ turns = <<>>
  /\ sel \in ExtractCalls
  /\ messages = <<>>

\* chatMutation.onSuccess runs on the reply received
OnSuccessReturns ==
  /\ sel.fn = "onSuccess"
  /\ sel.stage = "called"
  /\ LET result == onSuccess(sel.message)
     IN  sel' = [fn |-> sel.fn, stage |-> "returned", message |-> sel.message,
                 displayMessage |-> result.displayMessage,
                 foundPlaylist |-> result.foundPlaylist,
                 parsedPlaylist |-> result.parsedPlaylist]
  /\ UNCHANGED <<build, session, pc, req, response, playlists, calls, turns>>

NextExtract == OnSuccessReturns /\ UNCHANGED messages

SpecExtract == InitExtract /\ [][NextExtract]_vars

(***************************************************************************)
(* The chat page: its message list, sending, the reply arriving, Reset     *)
(***************************************************************************)
\* the welcome message, abridged to its first sentence
\* "Hi! I'm your AI DJ assistant!"
WELCOME ==
  <<"H","i","!"," ","I","'","m"," ","y","o","u","r"," ","A","I"," ","D","J"," ","a","s","s","i","s","t","a","n","t","!">>

\* "Sorry, I encountered an error. Please try again."
SORRY ==
  <<"S","o","r","r","y",","," ","I"," ","e","n","c","o","u","n","t","e","r","e","d"," ","a","n"," ","e","r","r","o","r","."," ","P","l","e","a","s","e"," ","t","r","y"," ","a","g","a","i","n",".">>

welcomeMessage == [role |-> "assistant", content |-> WELCOME]

\* the chat page opened in an authenticated session: the effect "add welcome
\* message on first load" has run
InitPage ==
  /\ build \in {"hybrid", "basic"}
  /\ session = [spotifyTokens |-> "valid", conversationHistory |-> NoHistory]
  /\ pc = "idle"
  /\ req = NoReq
  /\ response = NoResponse
  /\ playlists = <<>>
  /\ calls = <<>>
  /\ turns = <<>>
  /\ sel = NULL
  /\ messages = <<welcomeMessage>>

\* faulty variant: no isPending test: the user message is shown while a request
\* is pending
handleSendMessage_noPendingTest(inputMessage) ==
  /\ trim(inputMessage) # <<>>
  /\ LET userMessage == [role |-> "user", content |-> inputMessage]
     IN  IF pc = "idle"
           THEN /\ ChatRequest([message |-> inputMessage])
                /\ messages' =
                     IF pc' = "idle"
                       THEN Append(Append(messages, userMessage),
                                   [role |-> "assistant", content |-> SORRY])
                       ELSE Append(messages, userMessage)
           ELSE /\ Len(messages) < 2 * MaxTurns + 1
                /\ messages' = Append(messages, userMessage)
                /\ UNCHANGED <<build, session, pc, req, response, playlists, calls, turns, sel>>

\* handleSendMessage: the user message is shown and posted to /api/chat; a
\* request answered at once (401, 400) ends in onError
handleSendMessage(inputMessage) ==
  /\ trim(inputMessage) # <<>>
  /\ pc = "idle"
  /\ ChatRequest([message |-> inputMessage])
  /\ LET userMessage == [role |-> "user", content |-> inputMessage]
     IN  messages' =
           IF pc' = "idle"
             THEN Append(Append(messages, userMessage),
                         [role |-> "assistant", content |-> SORRY])
             ELSE Append(messages, userMessage)

\* the request settles: onSuccess shows the display text of the reply, onError
\* the apology
chatMutationSettles(completion) ==
  /\ CompletionReturns(completion)
  /\ messages' =
       Append(messages,
              [role |-> "assistant",
               content |-> IF response'.status = 200
                             THEN onSuccess(response'.message).displayMessage
                             ELSE SORRY])

\* handleReset: the page shows the welcome message alone (the parsed playlist,
\* the created playlist, the playlist name and the input box, not modelled, are
\* cleared as well); no request is sent
handleReset ==
  /\ messages' = <<welcomeMessage>>
  /\ UNCHANGED <<build, session, pc, req, response, playlists, calls, turns, sel>>

NextPage ==
  \/ \E inputMessage \in Messages : handleSendMessage(inputMessage)
  \/ \E intentAnalysis \in IntentOutcomes : IntentReturns(intentAnalysis) /\ UNCHANGED messages
  \/ SearchReturns /\ UNCHANGED messages
  \/ \E completion \in CompletionOutcomes : chatMutationSettles(completion)
  \/ handleReset

SpecPage == InitPage /\ [][NextPage]_vars

(***************************************************************************)
(* Admission of requests: the chat handler together with the create-playlist*)
(* requests that do not pass validation                                    *)
(***************************************************************************)
\* the create-playlist bodies without a playlist name or without a songs array
RejectedCreatePlaylistBodies ==
  {body \in CreatePlaylistBodies :
     \/ "playlistName" \notin DOMAIN body
     \/ body.playlistName = <<>>
     \/ "songs" \notin DOMAIN body
     \/ ~isArray(body.songs)}

NextAdmission ==
  \/ NextChat
  \/ \E body \in RejectedCreatePlaylistBodies : CreatePlaylistRequest(body) /\ UNCHANGED messages

SpecAdmission == Init /\ [][NextAdmission]_vars

(***************************************************************************)
(* Direct calls of the pure helpers                                        *)
(***************************************************************************)
\* entries of the history handed to selectOptimalModel
MaxSelectHistory == 2

HelperMessages == Messages \cup {MSG_jazz, MSG_does, MSG_make, MSG_what, MSG_real}

SelectHistories ==
  UNION {[1..n -> {[role |-> "user", content |-> m] : m \in HelperMessages}] :
           n \in 0..MaxSelectHistory}

SelectCalls ==
  {[fn |-> "selectOptimalModel", stage |-> "called",
    isPlaylistGeneration |-> p, hasCandidateSongs |-> c, conversationHistory |-> h] :
     p \in BOOLEAN, c \in BOOLEAN, h \in SelectHistories}

ClassifyCalls ==
  {[fn |-> "shouldGeneratePlaylist", stage |-> "called", message |-> m] :
     m \in HelperMessages}

InitHelpers ==
  /\ build = "hybrid"
  /\ session = [spotifyTokens |-> NULL, conversationHistory |-> NoHistory]
  /\ pc = "idle"
  /\ req = NoReq
  /\ response = NoResponse
  /\ playlists = <<>>
  /\ calls = <<>>
  /\ turns = <<>>
  /\ sel \in SelectCalls \cup ClassifyCalls
  /\ messages = <<>>

\* selectOptimalModel runs to its return
SelectReturns ==
  /\ sel.fn = "selectOptimalModel"
  /\ sel.stage = "called"
  /\ sel' = [fn |-> sel.fn, stage |-> "returned",
             isPlaylistGeneration |-> sel.isPlaylistGeneration,
             hasCandidateSongs |-> sel.hasCandidateSongs,
             conversationHistory |-> sel.conversationHistory,
             result |-> selectOptimalModel(sel.isPlaylistGeneration,
                                           sel.hasCandidateSongs,
                                           sel.conversationHistory)]
  /\ UNCHANGED <<build, session, pc, req, response, playlists, calls, turns>>

\* the intent call of shouldGeneratePlaylist ends and the function returns
ClassifierAnswers(intentAnalysis) ==
  /\ sel.fn = "shouldGeneratePlaylist"
  /\ sel.stage = "called"
  /\ sel' = [fn |-> sel.fn, stage |-> "returned", message |-> sel.message,
             intentAnalysis |-> intentAnalysis,
             result |-> shouldGeneratePlaylist(sel.message, intentAnalysis)]
  /\ UNCHANGED <<build, session, pc, req, response, playlists, calls, turns>>

NextHelpers ==
  \/ SelectReturns /\ UNCHANGED messages
  \/ \E intentAnalysis \in IntentOutcomes : ClassifierAnswers(intentAnalysis) /\ UNCHANGED messages

SpecHelpers == InitHelpers /\ [][NextHelpers]_vars

(***************************************************************************)
(* Properties of the conversation history                                  *)
(***************************************************************************)
history == session.conversationHistory

\* the turns whose reply-generating call was reached: all but a turn still held
\* at the intent call or at a candidate search
reachedCompletion ==
  IF pc \in {"intent", "search"} THEN Len(turns) - 1 ELSE Len(turns)

\* the length of the history when turn i ended
lengthAfter(i) == IF i < Len(turns) THEN turns[i + 1].before ELSE Len(history)

contentsOf(role) ==
  LET entries == SelectSeq(history, LAMBDA m : m.role = role)
  IN  [i \in 1..Len(entries) |-> entries[i].content]

returnedTurns == SelectSeq(turns, LAMBDA turn : turn.completion = "returned")

\* C1: in a session whose N turns so far all succeeded (and none is in flight),
\* the history is the system entry followed by the N (user, assistant) pairs in
\* submission order, so its length is 1 + 2N.
C1_LengthAfterSuccessfulTurns ==
  (pc = "idle" /\ Len(turns) > 0 /\ \A i \in 1..Len(turns) : turns[i].status = 200)
    => /\ Len(history) = 1 + 2 * Len(turns)
       /\ history[1].role = "system"
       /\ \A i \in 1..Len(turns) :
            /\ history[2 * i] = [role |-> "user", content |-> turns[i].message]
            /\ history[2 * i + 1] = [role |-> "assistant", content |-> turns[i].reply]

C1_Witness ==
  /\ pc = "idle"
  /\ build = "hybrid"
  /\ Len(turns) = MaxTurns
  /\ \A i \in 1..Len(turns) : turns[i].status = 200
  /\ turns[1].message # turns[2].message
  /\ turns[1].reply # turns[2].reply

\* C2: a turn whose reply-generating call threw leaves the history one entry longer
\* than it found it, that entry being the user utterance (no assistant entry), and
\* is answered with an error (status 500), not a reply.
C2_FailedTurnGrowsByOne ==
  pc = "idle" =>
    \A i \in 1..Len(turns) :
      turns[i].completion = "threw" =>
        /\ lengthAfter(i) = turns[i].before + 1
        /\ history[lengthAfter(i)] = [role |-> "user", content |-> turns[i].message]
        /\ turns[i].status = 500
        /\ (i = Len(turns) /\ response.kind = "chat" /\ response.status \notin {400, 401})
             => (response.status = 500 /\ "message" \notin DOMAIN response)

C2_Witness ==
  /\ pc = "idle"
  /\ build = "hybrid"
  /\ Len(turns) = 2
  /\ turns[1].completion = "threw"
  /\ turns[2].completion = "threw"
  /\ response.status = 500

\* C3: the user entries of the history are the submitted utterances, in order, and
\* the assistant entries the replies returned, in order; when a prompt carries the
\* candidate list, the list is in the prompt's last message alone, the history
\* holding the utterance as submitted.
C3_AugmentationNeverPersisted ==
  /\ contentsOf("user") = [i \in 1..reachedCompletion |-> turns[i].message]
  /\ contentsOf("assistant") = [i \in 1..Len(returnedTurns) |-> returnedTurns[i].reply]
  /\ \A i \in 1..Len(history) : ~includes(history[i].content, candidateHeader)
  /\ (pc = "completion" /\ Len(req.candidateSongs) > 0)
       => LET messagesSent == req.openaiRequest.messages
          IN  /\ Len(messagesSent) = Len(history)
              /\ \A i \in 1..(Len(history) - 1) : messagesSent[i] = history[i]
              /\ includes(messagesSent[Len(messagesSent)].content, candidateHeader)
              /\ history[Len(history)] = [role |-> "user", content |-> req.message]

C3_Witness ==
  /\ pc = "completion"
  /\ Len(turns) = 2
  /\ turns[1].status = 200
  /\ Len(req.candidateSongs) > 0
  /\ req.openaiRequest.messages[Len(history)].content # req.message
  /\ history[Len(history)].content = req.message

\* C5: every reply-generating call is made with one of the two canonical
\* configurations: economy (gpt-3.5-turbo, 1000, 0.3) or accurate (gpt-4-turbo,
\* 1000, 0.2).
C5_CanonicalConfig ==
  pc = "completion" =>
    LET r == req.openaiRequest
    IN  \/ r.model = GPT35 /\ r.max_tokens = MaxTokens /\ r.temperature = TemperatureEconomy
        \/ r.model = GPT4 /\ r.max_tokens = MaxTokens /\ r.temperature = TemperatureAccurate

(***************************************************************************)
(* Properties of the candidate retriever                                   *)
(***************************************************************************)
\* the (artist, title) pairs the searches of the request in flight returned
pairsFound ==
  UNION {{<<req.searched[k].items[j].artist, req.searched[k].items[j].song>> :
            j \in 1..Len(req.searched[k].items)} :
         k \in {n \in 1..Len(req.searched) : req.searched[n].ok}}

pairOf(song) == <<song.artist, song.song>>

retrieverReturned == pc = "completion" /\ req.wantsPlaylist

\* C6: the candidate set holds at most 50 tracks, no (artist, title) pair twice, and
\* as many tracks as the searches found distinct pairs, up to 50: the duplicates
\* are removed before the cut. Each search returned at most 10 items.
C6_CandidatesCappedAndDistinct ==
  retrieverReturned =>
    LET c == req.candidateSongs
    IN  /\ \A k \in 1..Len(req.searched) :
             req.searched[k].ok => Len(req.searched[k].items) <= SearchLimit
        /\ Len(c) <= MaxCandidates
        /\ \A i, j \in 1..Len(c) : pairOf(c[i]) = pairOf(c[j]) => i = j
        /\ \A i \in 1..Len(c) : pairOf(c[i]) \in pairsFound
        /\ Len(c) = IF Cardinality(pairsFound) < MaxCandidates
                      THEN Cardinality(pairsFound) ELSE MaxCandidates

C6_Witness ==
  /\ retrieverReturned
  /\ Len(req.candidateSongs) = MaxCandidates
  /\ Cardinality(pairsFound) > MaxCandidates
  /\ \E k \in 1..Len(req.searched) :
       req.searched[k].ok /\ req.searched[k].items = RepeatedResults

\* C7: the retriever searches every term whatever failed before, keeps what the
\* searches that succeeded returned (up to the cap), returns the empty set when
\* every search failed, the prompt then being the history as stored; and no chat
\* turn fails but by its reply-generating call.
C7_RetrieverNeverRaises ==
  /\ \A i \in 1..Len(turns) : turns[i].status = 500 => turns[i].completion = "threw"
  /\ retrieverReturned =>
       LET c == req.candidateSongs
       IN  /\ Len(req.searched) = Len(req.searchTerms)
           /\ \/ Len(c) = MaxCandidates
              \/ \A pair \in pairsFound : \E i \in 1..Len(c) : pairOf(c[i]) = pair
           /\ (\A k \in 1..Len(req.searched) : ~req.searched[k].ok)
                => (c = <<>> /\ req.openaiRequest.messages = history)

C7_Witness ==
  /\ retrieverReturned
  /\ \E k1, k2 \in 1..Len(req.searched) :
       k1 < k2 /\ ~req.searched[k1].ok /\ req.searched[k2].ok
  /\ Len(req.candidateSongs) > 0
  /\ includes(req.openaiRequest.messages[Len(history)].content, candidateHeader)

(***************************************************************************)
(* Properties of the model selector and of the intent classifier           *)
(***************************************************************************)
\* text contains cue as a substring, letter case ignored
containsIgnoringCase(text, cue) ==
  \E p \in 0..(Len(text) - Len(cue)) :
    \A i \in 1..Len(cue) : LowerChar(text[p + i]) = LowerChar(cue[i])

selectReturned == sel.fn = "selectOptimalModel" /\ sel.stage = "returned"

classifyReturned == sel.fn = "shouldGeneratePlaylist" /\ sel.stage = "returned"

lastContent(h) == IF Len(h) = 0 THEN <<>> ELSE h[Len(h)].content

\* C4: selectOptimalModel returns the accurate model when the turn is a playlist
\* turn or has candidates; otherwise the accurate model exactly when the content
\* of the last history entry contains a factual cue (letter case ignored), and
\* the economy model in every other case, the empty history included.
C4_SelectRule ==
  selectReturned =>
    LET cued == \E i \in DOMAIN factualTriggers :
                  containsIgnoringCase(lastContent(sel.conversationHistory),
                                       factualTriggers[i])
    IN  /\ (sel.isPlaylistGeneration \/ sel.hasCandidateSongs) => sel.result = GPT4
        /\ (~sel.isPlaylistGeneration /\ ~sel.hasCandidateSongs /\ cued)
             => sel.result = GPT4
        /\ (~sel.isPlaylistGeneration /\ ~sel.hasCandidateSongs /\ ~cued)
             => sel.result = GPT35
        /\ (~sel.isPlaylistGeneration /\ ~sel.hasCandidateSongs
              /\ Len(sel.conversationHistory) = 0) => sel.result = GPT35

\* a call with both flags false whose last entry holds a cue in mixed case, after
\* an entry without one, has returned the accurate model
C4_Witness ==
  /\ selectReturned
  /\ ~sel.isPlaylistGeneration /\ ~sel.hasCandidateSongs
  /\ Len(sel.conversationHistory) = 2
  /\ sel.conversationHistory[1].content = MSG_jazz
  /\ sel.conversationHistory[2].content = MSG_who
  /\ sel.result = GPT4

\* C8: when the intent call fails shouldGeneratePlaylist still returns, with the
\* keyword result: true exactly when the utterance contains one of the fixed
\* keywords, letter case ignored (true for "create a playlist", false for
\* "I like rock music"); when the call succeeds the result does not depend on the
\* keywords and is true only when the answer, trimmed and upper-cased, is YES.
C8_ClassifierFallback ==
  classifyReturned =>
    LET keyword == \E i \in DOMAIN playlistTriggers :
                     containsIgnoringCase(sel.message, playlistTriggers[i])
    IN  /\ sel.intentAnalysis.kind = "error" =>
             /\ sel.result = keyword
             /\ sel.message = MSG_create => sel.result = TRUE
             /\ sel.message = MSG_rock => sel.result = FALSE
        /\ sel.intentAnalysis.kind = "null" => sel.result = FALSE
        /\ sel.intentAnalysis.kind = "ok" =>
             /\ sel.intentAnalysis.content = ANS_yes => sel.result = TRUE
             /\ sel.intentAnalysis.content = ANS_no => sel.result = FALSE
             /\ sel.result = TRUE =>
                  sel.intentAnalysis.content \in {ANS_yes, ANS_yes_padded}

\* the intent call failed on "create a playlist" and the function returned true
C8_Witness ==
  /\ classifyReturned
  /\ sel.intentAnalysis.kind = "error"
  /\ sel.message = MSG_create
  /\ sel.result = TRUE

\* the intent call answered NO on an utterance full of keywords: result false
C8_WitnessSuccess ==
  /\ classifyReturned
  /\ sel.intentAnalysis.kind = "ok"
  /\ sel.intentAnalysis.content = ANS_no
  /\ sel.message = MSG_create
  /\ sel.result = FALSE

(***************************************************************************)
(* Properties of /api/create-playlist                                      *)
(***************************************************************************)
\* the create-playlist request has been answered with a playlist result
materializeSucceeded ==
  pc = "idle" /\ response.kind = "create-playlist" /\ response.status = 200

\* the create-playlist request has been answered with the failure response
materializeFailed ==
  pc = "idle" /\ response.kind = "create-playlist" /\ response.status = 500

callsTo(api) == {k \in DOMAIN calls : calls[k].api = api}

\* the entries whose primary or fallback search returned a track
resolvedSearches == {k \in callsTo("search") : calls[k].ok /\ calls[k].found > 0}

\* C9: for every create-playlist request that succeeds, tracksAdded is the number
\* of resolved tracks, totalRequested the number of submitted entries, and
\* tracksAdded <= totalRequested; when no entry resolves the request still
\* succeeds with the created playlist, tracksAdded = 0, and no
\* addItemsToPlaylist call was made.
C9_TracksAddedBounded ==
  materializeSucceeded =>
    LET result == response.playlist
    IN  /\ result.totalRequested = Len(req.songs)
        /\ result.tracksAdded = Cardinality(resolvedSearches)
        /\ result.tracksAdded <= result.totalRequested
        /\ result.id \in DOMAIN playlists
        /\ playlists[result.id].name = req.playlistName
        /\ Len(playlists[result.id].tracks) = result.tracksAdded
        /\ result.tracksAdded = 0 => callsTo("addItemsToPlaylist") = {}
        /\ result.tracksAdded > 0 => Cardinality(callsTo("addItemsToPlaylist")) = 1

\* two entries were submitted, none resolved (a search failed, another found
\* nothing), and the request succeeded with zero tracks
C9_Witness ==
  /\ materializeSucceeded
  /\ response.playlist.totalRequested = 2
  /\ response.playlist.tracksAdded = 0
  /\ \E k \in callsTo("search") : ~calls[k].ok
  /\ \E k \in callsTo("search") : calls[k].ok /\ calls[k].found = 0

nullSubmitted == \E i \in DOMAIN req.songs : "song" \notin DOMAIN req.songs[i]

playlistCreated == \E k \in callsTo("createPlaylist") : calls[k].ok

C11_FailedCallLeavesNoPlaylist ==
  (materializeFailed /\ ~nullSubmitted) => req.playlist.id \notin DOMAIN playlists

(***************************************************************************)
(* Properties of request admission                                         *)
(***************************************************************************)
\* C12: a request whose session credential is missing or expired is answered
\* with 401 before any external call: no handler is ever suspended on an
\* external call (intent call, track search, reply call, profile, playlist
\* creation) in a session without a valid credential, and the history such a
\* session holds is the one it held when it was last valid.
C12_AuthRejectedFirst ==
  session.spotifyTokens # "valid" => pc = "idle"

\* the step answers 400 for the handler named and does no work
rejectedWithoutWork(handler) ==
  /\ response'.status = 400
  /\ response'.kind = handler
  /\ pc' = "idle"
  /\ session' = session
  /\ playlists' = playlists
  /\ calls' = <<>>
  /\ turns' = turns

\* C13: in an authenticated session a chat request without an utterance, and a
\* create-playlist request without a playlist name or with a songs payload that
\* is not an array, is answered with 400 and does no work: no handler is left
\* suspended on an external call, the history is unchanged and no playlist is
\* created.
C13_InvalidRejected ==
  [][/\ \A body \in ChatBodies :
          (/\ session.spotifyTokens # NULL
           /\ "message" \notin DOMAIN body \/ body.message = <<>>
           /\ ChatRequest(body)) => rejectedWithoutWork("chat")
     /\ \A body \in CreatePlaylistBodies :
          (/\ session.spotifyTokens # NULL
           /\ \/ "playlistName" \notin DOMAIN body
              \/ "songs" \notin DOMAIN body
              \/ "array" \notin DOMAIN body.songs
           /\ CreatePlaylistRequest(body)) => rejectedWithoutWork("create-playlist")
    ]_vars

\* a chat request without utterance was rejected in a session that holds the
\* history of a completed turn
C13_Witness ==
  /\ response.status = 400
  /\ response.kind = "chat"
  /\ Len(history) = 3

isPrefix(s, t) == Len(s) <= Len(t) /\ SubSeq(t, 1, Len(s)) = s

\* the step is a logout: the session, credential included, is destroyed
logoutStep == session.spotifyTokens # NULL /\ session'.spotifyTokens = NULL

containsInOrder(text, word1, word2) ==
  \E p \in 0..(Len(text) - Len(word1)) :
    /\ \A i \in 1..Len(word1) : LowerChar(text[p + i]) = LowerChar(word1[i])
    /\ containsIgnoringCase(SubSeq(text, p + Len(word1) + 1, Len(text)), word2)

\* the documented factual triggers: "who is", "what is", "does <song> exist",
\* "real song"
documentedFactual(text) ==
  \/ containsIgnoringCase(text, <<"w","h","o"," ","i","s">>)
  \/ containsIgnoringCase(text, <<"w","h","a","t"," ","i","s">>)
  \/ containsIgnoringCase(text, <<"r","e","a","l"," ","s","o","n","g">>)
  \/ containsInOrder(text, <<"d","o","e","s"," ">>, <<" ","e","x","i","s","t">>)

\* C20: with both flags false, a last utterance that holds a documented factual
\* trigger ("who is", "what is", "does <song> exist", "real song") selects
\* gpt-4-turbo.
C20_FactualTriggersSelectAccurate ==
  (/\ selectReturned
   /\ ~sel.isPlaylistGeneration /\ ~sel.hasCandidateSongs
   /\ documentedFactual(lastContent(sel.conversationHistory)))
    => sel.result = GPT4

\* ---------------------------------------------------------------------------
\* The playlist extractor of the chat page
\* ---------------------------------------------------------------------------

extractReturned == sel.fn = "onSuccess" /\ sel.stage = "returned"

\* the record {"artist": artist, "song": song} as JSON.parse returns it
Song(artist, song) ==
  [type |-> "object",
   v |-> [k \in {KEY_artist, KEY_song} |->
            [type |-> "string", v |-> IF k = KEY_artist THEN artist ELSE song]]]

\* the blocks whose interior is a JSON array of artist/song records, with the
\* records each holds
blockRecords ==
  [mid \in {MID_one, MID_two, MID_spaced} |->
     IF mid = MID_two
       THEN <<Song(<<"A">>, <<"B">>), Song(<<"C">>, <<"D">>)>>
       ELSE <<Song(<<"A">>, <<"B">>)>>]

ProsePrefixes == ReplyPrefixes \ {PRE_none}

ProseSuffixes == {SUF_now, SUF_enjoy}

allWhitespace(s, a, b) == \A k \in a..b : s[k] \in Whitespace

\* position k of s is whitespace that starts a line, or follows whitespace that
\* does, and has a line feed behind it in the same run of whitespace
squeezedAt(s, k) ==
  /\ \E p \in 1..k : (p = 1 \/ s[p - 1] = "LF") /\ allWhitespace(s, p, k)
  /\ \E j \in (k + 1)..Len(s) : allWhitespace(s, k, j) /\ s[j] = "LF"

\* s without the positions squeezedAt names: blank lines are squeezed so that
\* whitespace at the start of a line holds no line feed but a first one
squeezeBlankLines(s) ==
  LET kept == {k \in 1..Len(s) : ~squeezedAt(s, k)}
      nth(i) == CHOOSE k \in kept : Cardinality({j \in kept : j <= k}) = i
  IN  [i \in 1..Cardinality(kept) |-> s[nth(i)]]

\* C16 as stated: a reply that holds one block of artist/song records with
\* prose on both sides gives the records in order and, as display text, the
\* reply with the block removed and the surrounding whitespace trimmed.
C16_BlockRemovedAndTrimmed ==
  \A pre \in ProsePrefixes, mid \in DOMAIN blockRecords, suf \in ProseSuffixes :
    (extractReturned /\ sel.message = pre \o mid \o suf)
      => /\ sel.parsedPlaylist = blockRecords[mid]
         /\ sel.displayMessage = trim(pre \o suf)
         /\ ~includes(sel.displayMessage, STR_open)
         /\ ~includes(sel.displayMessage, STR_close)

\* C16: a reply that holds one block of artist/song records with prose on both
\* sides gives the records in order and, as display text, the reply with the
\* block removed, its blank lines squeezed and the surrounding whitespace
\* trimmed; the display text holds neither sentinel.
C16_BlockRemovedAndSqueezed ==
  \A pre \in ProsePrefixes, mid \in DOMAIN blockRecords, suf \in ProseSuffixes :
    (extractReturned /\ sel.message = pre \o mid \o suf)
      => /\ sel.parsedPlaylist = blockRecords[mid]
         /\ sel.displayMessage = trim(squeezeBlankLines(trim(pre \o suf)))
         /\ ~includes(sel.displayMessage, STR_open)
         /\ ~includes(sel.displayMessage, STR_close)

\* a block of two records between two paragraphs: both records are parsed and
\* the four line feeds left by the block are displayed as two
C16_Witness ==
  /\ extractReturned
  /\ sel.message = PRE_hi \o MID_two \o SUF_enjoy
  /\ Len(sel.parsedPlaylist) = 2
  /\ sel.displayMessage = <<"H","i","LF","LF","E","n","j","o","y">>

\* the blocks whose array holds a record without a non-empty artist and song,
\* with the valid records of each: MID_badFirst opens with {"artist":"","song":"B"},
\* MID_badLast ends with {"artist":"C"}
validRecords ==
  [mid \in {MID_badFirst, MID_badLast} |->
     IF mid = MID_badFirst
       THEN <<Song(<<"C">>, <<"D">>)>>
       ELSE <<Song(<<"A">>, <<"B">>)>>]

\* C17 as stated: the parsed playlist of an array with an invalid record is the
\* sequence of its valid records, wherever the invalid record stands.
C17_InvalidRecordsDropped ==
  \A pre \in ReplyPrefixes, mid \in DOMAIN validRecords, suf \in ReplySuffixes :
    (extractReturned /\ sel.message = pre \o mid \o suf)
      => sel.parsedPlaylist = validRecords[mid]

\* the replies without sentinel and without bracket: prose only
proseOnly(message) == \A k \in 1..Len(message) : message[k] \notin {"[", "]", "{", "}"}

\* C18 as stated: a reply without sentinel and bracket gives no playlist and is
\* displayed as it is, character for character.
C18_ProseDisplayedUnchanged ==
  (extractReturned /\ proseOnly(sel.message))
    => ~sel.foundPlaylist /\ sel.parsedPlaylist = <<>> /\ sel.displayMessage = sel.message

\* the text neither starts nor ends with whitespace and holds no blank line
\* that would be squeezed
tidy(message) ==
  /\ trim(message) = message
  /\ \A k \in 1..Len(message) : ~squeezedAt(message, k)

\* C18: a reply without sentinel and bracket gives no playlist and is displayed
\* with its blank lines squeezed and the surrounding whitespace trimmed, which
\* is the reply character for character when it has neither.
C18_ProseDisplayedTrimmed ==
  (extractReturned /\ proseOnly(sel.message))
    => /\ ~sel.foundPlaylist
       /\ sel.parsedPlaylist = <<>>
       /\ sel.displayMessage = trim(squeezeBlankLines(trim(sel.message)))
       /\ tidy(sel.message) => sel.displayMessage = sel.message

\* prose of two paragraphs is displayed unchanged
C18_Witness ==
  /\ extractReturned
  /\ sel.message = PRE_hi \o SUF_now
  /\ tidy(sel.message)
  /\ sel.displayMessage = sel.message
  /\ ~sel.foundPlaylist

\* prose with two empty lines in a row and a trailing line feed loses one empty
\* line and the trailing line feed
C18_WitnessSqueezed ==
  /\ extractReturned
  /\ sel.message = PRE_gap \o SUF_feed
  /\ sel.displayMessage = <<"H","i","LF","LF","y","o","u">>
  /\ ~sel.foundPlaylist

\* the middles no playlist can be parsed from: a block cut off inside its first
\* record, a block that holds no JSON, a bare array cut off
unparsedMiddles == {MID_cut, MID_oops, MID_bareCut}

withoutWhitespace(s) == SelectSeq(s, LAMBDA c : c \notin Whitespace)

isSuffix(s, t) == Len(s) <= Len(t) /\ SubSeq(t, Len(t) - Len(s) + 1, Len(t)) = s

\* C19 as stated, for the prose around the content that failed to parse: no
\* playlist is parsed, the prose before that content is displayed and, when the
\* content is closed by the sentinel, so is the prose behind it (whitespace
\* aside).
C19_ProseOutsidePreserved ==
  \A pre \in ReplyPrefixes, mid \in unparsedMiddles, suf \in ReplySuffixes :
    (extractReturned /\ sel.message = pre \o mid \o suf)
      => /\ ~sel.foundPlaylist
         /\ sel.parsedPlaylist = <<>>
         /\ isPrefix(withoutWhitespace(pre), withoutWhitespace(sel.displayMessage))
         /\ includes(mid, STR_close)
              => isSuffix(withoutWhitespace(suf), withoutWhitespace(sel.displayMessage))

(***************************************************************************)
(* Reset and logout                                                        *)
(***************************************************************************)
\* the reply-generating call of the turn in flight is made from the system
\* utterance and the utterance of this turn alone
answeredFromFreshHistory ==
  /\ history = <<systemMessage, [role |-> "user", content |-> req.message]>>
  /\ Len(req.openaiRequest.messages) = 2
  /\ req.openaiRequest.messages[1] = systemMessage
  /\ req.openaiRequest.messages[2].role = "user"

\* C15, reset: the first chat turn after Reset (the page shows the welcome
\* message and this turn's utterance alone) is answered from a history that
\* holds only the system utterance and this turn's utterance.
C15_FirstTurnAfterReset ==
  (/\ pc = "completion"
   /\ Len(messages) = 2
   /\ messages[1] = welcomeMessage
   /\ messages[2] = [role |-> "user", content |-> req.message])
    => answeredFromFreshHistory

\* C15, logout: the first chat turn of the session that follows a logout (as of
\* any session) is answered from a history that holds only the system
\* utterance and this turn's utterance.
C15_FirstTurnAfterLogout ==
  (pc = "completion" /\ Len(turns) = 1) => answeredFromFreshHistory

\* C15, logout: the step that ends the session leaves no history behind.
C15_LogoutDiscardsHistory ==
  [][logoutStep => history' = NoHistory]_vars

(***************************************************************************)
(* Resolution of the entries of a create-playlist request                  *)
(***************************************************************************)
\* the searches of the request made with the exact-field query of a pair, and
\* the ones made with the plain query of a pair
primaryCalls ==
  {k \in callsTo("search") : \E song \in Pairs : calls[k].query = searchQuery(song)}

fallbackCalls ==
  {k \in callsTo("search") : \E song \in Pairs : calls[k].query = fallbackQuery(song)}

\* the pair a search was made for
pairOfCall(k) ==
  CHOOSE song \in Pairs : calls[k].query \in {searchQuery(song), fallbackQuery(song)}

\* search k returned (did not throw) and returned no item
returnedNothing(k) == calls[k].ok /\ calls[k].found = 0

\* search k is the last call made and the handler is about to make the
\* fallback search, or the next call is the fallback search of the same pair
fallbackFollows(k) ==
  IF k = Len(calls)
    THEN pc = "fallback"
    ELSE k + 1 \in fallbackCalls /\ pairOfCall(k + 1) = pairOfCall(k)

\* the track identifiers of the searches that returned an item, in call order
identifiersFound ==
  LET found == SelectSeq(calls, LAMBDA c : c.api = "search" /\ c.ok /\ c.found > 0)
  IN  [j \in 1..Len(found) |->
         TrackUri(CHOOSE song \in Pairs :
                    found[j].query \in {searchQuery(song), fallbackQuery(song)})]

\* C21: the fallback query of a pair is issued if and only if its primary query
\* returned zero results; the pair resolves to the first result of the query
\* that returned results and is skipped, the call going on, when both return
\* zero; at most two searches are issued per pair.
C21_FallbackIffPrimaryEmpty ==
  calls # <<>> =>
    /\ \A k \in fallbackCalls :
         k - 1 \in primaryCalls /\ pairOfCall(k - 1) = pairOfCall(k) /\ returnedNothing(k - 1)
    /\ \A k \in primaryCalls : returnedNothing(k) => fallbackFollows(k)
    /\ Cardinality(primaryCalls) <= Len(req.songs)
    /\ Cardinality(fallbackCalls) <= Cardinality(primaryCalls)
    /\ callsTo("search") = primaryCalls \cup fallbackCalls
    /\ req.trackUris = identifiersFound
    /\ \A k \in fallbackCalls :
         (returnedNothing(k) /\ k < Len(calls)) => calls[k + 1].api # "search" \/ k + 1 \in primaryCalls

\* of two pairs the first returned nothing to both queries and was skipped, the
\* second was resolved by its fallback query, and the request succeeded
C21_Witness ==
  /\ materializeSucceeded
  /\ Cardinality(primaryCalls) = 2
  /\ Cardinality(fallbackCalls) = 2
  /\ \E k \in fallbackCalls : returnedNothing(k) /\ returnedNothing(k - 1)
  /\ \E k \in fallbackCalls : calls[k].found > 0
  /\ response.playlist.tracksAdded = 1

\* C22 as stated: when the primary search of a pair fails with an upstream
\* error, the fallback query of that pair is still attempted.
C22_FallbackAfterFailedPrimary ==
  \A k \in primaryCalls : ~calls[k].ok => fallbackFollows(k)

\* the primary searches of the request, in call order
primarySearches ==
  SelectSeq(calls, LAMBDA c : c.api = "search"
                              /\ \E song \in Pairs : c.query = searchQuery(song))

\* ids is made of the track identifiers of some of the entries of songs, in the
\* order of these entries
inInputOrder(ids, songs) ==
  \E f \in [1..Len(ids) -> 1..Len(songs)] :
    /\ \A m \in 1..Len(ids) : "song" \in DOMAIN songs[f[m]] /\ ids[m] = TrackUri(songs[f[m]])
    /\ \A m \in 1..(Len(ids) - 1) : f[m] < f[m + 1]

\* C23: the pairs are resolved one at a time in input order; the resolved track
\* identifiers keep the input order of their pairs; addItemsToPlaylist is
\* called at most once, after all pairs were processed, with all resolved
\* identifiers, and only when at least one pair resolved.
C23_OneAtATimeInOrderOneBatch ==
  calls # <<>> =>
    /\ Len(primarySearches) <= Len(req.songs)
    /\ \A j \in 1..Len(primarySearches) :
         primarySearches[j].query = searchQuery(req.songs[j])
    /\ \A k \in fallbackCalls : k - 1 \in primaryCalls /\ pairOfCall(k - 1) = pairOfCall(k)
    /\ pc \in {"primary", "fallback"}
         => /\ req.i = Len(primarySearches) + (IF pc = "primary" THEN 1 ELSE 0)
            /\ callsTo("addItemsToPlaylist") = {}
    /\ inInputOrder(req.trackUris, req.songs)
    /\ Cardinality(callsTo("addItemsToPlaylist")) <= 1
    /\ \A k \in callsTo("addItemsToPlaylist") :
         /\ k = Len(calls)
         /\ Len(primarySearches) = Len(req.songs)
         /\ calls[k].found = Len(req.trackUris)
         /\ Len(req.trackUris) = Cardinality(resolvedSearches)
         /\ resolvedSearches # {}
         /\ calls[k].ok => playlists[req.playlist.id].tracks = req.trackUris
    /\ (materializeSucceeded /\ resolvedSearches # {}) => callsTo("addItemsToPlaylist") # {}

\* two different pairs, the first resolved by its fallback query and the second
\* by its primary query, were added in one batch in input order
C23_Witness ==
  /\ materializeSucceeded
  /\ Len(req.songs) = 2
  /\ req.songs[1] # req.songs[2]
  /\ Cardinality(fallbackCalls) = 1
  /\ Cardinality(callsTo("addItemsToPlaylist")) = 1
  /\ playlists[req.playlist.id].tracks = <<TrackUri(req.songs[1]), TrackUri(req.songs[2])>>

\* ---------------------------------------------------------------------------
\* Order of the steps of a chat turn

\* the last entry of the stored history is the utterance of the turn in progress
utteranceStored ==
  LET stored == session.conversationHistory
  IN  /\ stored # NoHistory
      /\ Len(stored) > 0
      /\ stored[Len(stored)] = [role |-> "user", content |-> req.message]

\* C24: while the Intent Classifier or the Candidate Retriever of a turn is in
\* flight, the utterance of the turn is already the last entry of the history.
C24_UtteranceStoredBeforeClassifier ==
  pc \in {"intent", "search"} => utteranceStored

\* C25: the Candidate Retriever runs in a turn only if the Intent Classifier
\* answered true for the utterance of the turn; after a negative answer no
\* candidate search was made and the prompt of the completion call is exactly
\* the stored history.
C25_RetrieverOnlyAfterPositive ==
  /\ pc = "search"
       => /\ req.wantsPlaylist
          /\ \E intentAnalysis \in IntentOutcomes :
               shouldGeneratePlaylist(req.message, intentAnalysis)
  /\ pc = "completion"
       => /\ req.searched # <<>> => req.wantsPlaylist
          /\ ~req.wantsPlaylist
               => /\ req.searched = <<>>
                  /\ req.candidateSongs = <<>>
                  /\ req.openaiRequest.messages = session.conversationHistory

\* a later turn of the hybrid build was classified negative and its completion
\* call is in flight
C25_Witness ==
  /\ build = "hybrid"
  /\ pc = "completion"
  /\ ~req.wantsPlaylist
  /\ Len(turns) = 2
  /\ req.openaiRequest.messages = session.conversationHistory
  /\ \E intentAnalysis \in IntentOutcomes :
       ~shouldGeneratePlaylist(req.message, intentAnalysis)

\* ---------------------------------------------------------------------------
\* Shape of the conversation history

\* C27: in every history produced by sequential chat turns entry 0 is the only
\* system entry, every other entry is a user or an assistant entry, and every
\* assistant entry directly follows a user entry.
C27_HistoryShape ==
  history # NoHistory =>
    /\ history[1] = systemMessage
    /\ \A k \in 2..Len(history) :
         /\ history[k].role \in {"user", "assistant"}
         /\ history[k].role = "assistant" => history[k - 1].role = "user"

\* a turn whose completion call failed was followed by an answered turn: two
\* adjacent user entries, then the reply
C27_Witness ==
  /\ pc = "idle"
  /\ Len(history) = 4
  /\ history[1].role = "system"
  /\ history[2].role = "user"
  /\ history[3].role = "user"
  /\ history[4].role = "assistant"

\* ---------------------------------------------------------------------------
\* Augmented prompts and the model they are sent to

\* the last message of the pending completion call carries the candidate list
promptAugmented ==
  /\ pc = "completion"
  /\ LET sent == req.openaiRequest.messages
     IN  includes(sent[Len(sent)].content, candidateHeader)

\* C28: a prompt that carries the injected candidate list belongs to a turn
\* classified as a playlist turn and is sent to gpt-4-turbo with temperature
\* 0.2; candidates are non-empty only after a positive classification.
C28_AugmentedOnlyToAccurateModel ==
  pc = "completion" =>
    /\ req.candidateSongs # <<>> => req.wantsPlaylist
    /\ promptAugmented <=> req.candidateSongs # <<>>
    /\ promptAugmented
         => /\ req.wantsPlaylist
            /\ req.openaiRequest.model = GPT4
            /\ req.openaiRequest.temperature = TemperatureAccurate

\* an augmented prompt is in flight
C28_Witness ==
  /\ promptAugmented
  /\ req.openaiRequest.model = GPT4
  /\ LET sent == req.openaiRequest.messages
     IN  sent[Len(sent)].content = enhancedMessage(req.message, req.candidateSongs)

\* ---------------------------------------------------------------------------
\* Requests of the chat page

\* the user messages shown by the page
userMessagesShown == SelectSeq(messages, LAMBDA m : m.role = "user")

\* the utterances of the requests accepted by /api/chat, in order
utterancesSent == [t \in 1..Len(turns) |-> turns[t].message]

\* C29: the page never has two chat requests in flight: while a request is
\* pending no user message is appended and no request is sent, and every user
\* message shown belongs to exactly one /api/chat request.
C29_OneRequestPerUserMessage ==
  /\ [](isSuffix([m \in 1..Len(userMessagesShown) |-> userMessagesShown[m].content],
                 utterancesSent))
  /\ [][/\ pc # "idle"
             => /\ Len(userMessagesShown') <= Len(userMessagesShown)
                /\ turns' = turns \/ Len(turns') = Len(turns)
        /\ Len(userMessagesShown') > Len(userMessagesShown)
             => /\ pc = "idle"
                /\ Len(userMessagesShown') = Len(userMessagesShown) + 1
                /\ Len(turns') = Len(turns) + 1
                /\ turns'[Len(turns')].message
                     = userMessagesShown'[Len(userMessagesShown')].content
        /\ Len(turns') > Len(turns)
             => Len(userMessagesShown') = Len(userMessagesShown) + 1]_vars

\* the second request of the page is pending and the page shows its two user
\* messages
C29_Witness ==
  /\ pc # "idle"
  /\ Len(turns) = 2
  /\ Len(userMessagesShown) = 2
  /\ userMessagesShown[2].content = req.message

\* C30: a request sent before Reset (it is pending and the page shows the
\* welcome message alone) leaves the conversation untouched when it settles.
C30_NoReplyAfterReset ==
  [][(pc # "idle" /\ messages = <<welcomeMessage>> /\ pc' = "idle")
       => messages' = <<welcomeMessage>>]_vars

(***************************************************************************)
(* Chat requests of one session in flight at once                          *)
(*                                                                         *)
(* Express runs a handler up to its next await and then serves whatever    *)
(* request arrives, each request by its own run of the handler.  Here pc   *)
(* and req are functions of the run (the h-th arrival is served by run h), *)
(* calls is the log of the arrivals at /api/chat, and session is           *)
(* what the session store (app.use(session({...})), the default memory     *)
(* store) holds: a request works on req.session, its own copy read from    *)
(* the store at arrival, and the copy is stored back when its response     *)
(* ends.                                                                   *)
(***************************************************************************)
MaxArrivals == 2

Handlers == 1..MaxArrivals

ConcurrentBodies == {[message |-> m] : m \in {MSG_create, <<>>}}

\* the answers of the catalog considered here: the search of the first term
\* throws or finds tracks, the later ones find tracks
ConcurrentSearchOutcomes(k) ==
  {o \in SearchOutcomes(k, "valid") : o.ok /\ o.items = FreshResults(k)}
    \cup (IF k = 1 THEN {[ok |-> FALSE]} ELSE {})

inFlight == {h \in Handlers : pc[h] # "idle"}

Arrival(h, body, status) ==
  [handler |-> h, body |-> body, authenticated |-> session.spotifyTokens # NULL,
   inFlight |-> inFlight, status |-> status]

InitConcurrent ==
  /\ build \in {"hybrid", "basic"}
  /\ session = [spotifyTokens |-> "valid", conversationHistory |-> NoHistory]
  /\ pc = [h \in Handlers |-> "idle"]
  /\ req = [h \in Handlers |-> NoReq]
  /\ response = NoResponse
  /\ playlists = <<>>
  /\ calls = <<>>
  /\ turns = <<>>
  /\ sel = NULL
  /\ messages = <<>>

\* faulty variant: a request that arrives while a turn of the session is in
\* flight is turned away
ChatArrives_rejectWhenBusy(h, body) ==
  /\ pc[h] = "idle"
  /\ h = Len(calls) + 1
  /\ IF inFlight # {}
       THEN /\ response' = [status |-> 429, kind |-> "chat", error |-> "Busy"]
            /\ calls' = Append(calls, Arrival(h, body, "429"))
            /\ UNCHANGED <<pc, req, turns>>
     ELSE IF "message" \notin DOMAIN body \/ body.message = <<>>
       THEN /\ response' = [status |-> 400, kind |-> "chat", error |-> "Message is required"]
            /\ calls' = Append(calls, Arrival(h, body, "400"))
            /\ UNCHANGED <<pc, req, turns>>
     ELSE
       /\ req' = [req EXCEPT ![h] = [kind |-> "chat", message |-> body.message,
                                     history |-> seeded(session.conversationHistory),
                                     turn |-> Len(turns) + 1]]
       /\ pc' = [pc EXCEPT ![h] = "intent"]
       /\ turns' = Append(turns, NewTurn(body.message, seeded(session.conversationHistory)))
       /\ calls' = Append(calls, Arrival(h, body, "started"))
       /\ response' = response
  /\ UNCHANGED <<build, session, playlists, sel>>

\* the h-th request arrives: the handler up to its first suspension, on the
\* copy of the session read from the store
ChatArrives(h, body) ==
  /\ pc[h] = "idle"
  /\ h = Len(calls) + 1
  /\ IF session.spotifyTokens = NULL
       THEN /\ response' = [status |-> 401, kind |-> "chat", error |-> "Not authenticated"]
            /\ calls' = Append(calls, Arrival(h, body, "401"))
            /\ UNCHANGED <<pc, req, turns>>
     ELSE IF "message" \notin DOMAIN body \/ body.message = <<>>
       THEN /\ response' = [status |-> 400, kind |-> "chat", error |-> "Message is required"]
            /\ calls' = Append(calls, Arrival(h, body, "400"))
            /\ UNCHANGED <<pc, req, turns>>
     ELSE
       /\ LET loaded == seeded(session.conversationHistory)
              message == body.message
          IN  IF build = "hybrid"
                THEN /\ req' = [req EXCEPT ![h] =
                                  [kind |-> "chat", message |-> message,
                                   history |-> loaded, turn |-> Len(turns) + 1]]
                     /\ pc' = [pc EXCEPT ![h] = "intent"]
                ELSE /\ req' = [req EXCEPT ![h] =
                                  [kind |-> "chat", message |-> message,
                                   history |-> pushUser(loaded, message),
                                   turn |-> Len(turns) + 1,
                                   wantsPlaylist |-> FALSE, searchTerms |-> <<>>,
                                   searched |-> <<>>, candidateSongs |-> <<>>,
                                   openaiRequest |-> basicRequestFor(loaded, message)]]
                     /\ pc' = [pc EXCEPT ![h] = "completion"]
       /\ turns' = Append(turns, NewTurn(body.message, seeded(session.conversationHistory)))
       /\ calls' = Append(calls, Arrival(h, body, "started"))
       /\ response' = response
  /\ UNCHANGED <<build, session, playlists, sel>>

\* lines 503-564 for the run h
SendCompletionOf(h, wantsPlaylist, searched, candidateSongs) ==
  /\ req' = [req EXCEPT ![h] =
               [kind |-> "chat", message |-> req[h].message,
                history |-> pushUser(req[h].history, req[h].message),
                turn |-> req[h].turn,
                wantsPlaylist |-> wantsPlaylist,
                searchTerms |-> IF wantsPlaylist THEN req[h].searchTerms ELSE <<>>,
                searched |-> searched, candidateSongs |-> candidateSongs,
                openaiRequest |-> openaiRequestFor(req[h].history, req[h].message,
                                                   wantsPlaylist, candidateSongs)]]
  /\ pc' = [pc EXCEPT ![h] = "completion"]

\* the intent call of the run h returns or throws
IntentReturnsOf(h, intentAnalysis) ==
  /\ pc[h] = "intent"
  /\ LET wantsPlaylist == shouldGeneratePlaylist(req[h].message, intentAnalysis)
     IN  IF wantsPlaylist
           THEN /\ req' = [req EXCEPT ![h] =
                             [kind |-> "chat", message |-> req[h].message,
                              history |-> req[h].history, turn |-> req[h].turn,
                              wantsPlaylist |-> TRUE,
                              searchTerms |-> extractSearchTerms(req[h].message),
                              searched |-> <<>>, candidateSongs |-> <<>>]]
                /\ pc' = [pc EXCEPT ![h] = "search"]
           ELSE SendCompletionOf(h, FALSE, <<>>, <<>>)
  /\ UNCHANGED <<build, session, response, playlists, calls, turns, sel>>

\* sdk.search of the next term returns or throws for the run h
SearchReturnsOf(h) ==
  /\ pc[h] = "search"
  /\ \E searchResults \in ConcurrentSearchOutcomes(Len(req[h].searched) + 1) :
       LET candidateSongs == pushResults(req[h].candidateSongs, searchResults)
       IN  IF Len(req[h].searched) + 1 < Len(req[h].searchTerms)
             THEN /\ req' = [req EXCEPT ![h].searched = Append(@, searchResults),
                                        ![h].candidateSongs = candidateSongs]
                  /\ UNCHANGED pc
             ELSE SendCompletionOf(h, TRUE, Append(req[h].searched, searchResults),
                                   searchCandidateSongsResult(candidateSongs))
  /\ UNCHANGED <<build, session, response, playlists, calls, turns, sel>>

\* the reply-generating call of the run h returns or throws; the
\* response ends and the copy of the session is stored back
CompletionReturnsOf(h, completion) ==
  /\ pc[h] = "completion"
  /\ IF ~completion.ok
       THEN /\ response' = [status |-> 500, kind |-> "chat",
                            error |-> "Failed to process chat message"]
            /\ turns' = [turns EXCEPT ![req[h].turn].status = 500,
                                      ![req[h].turn].completion = "threw"]
            /\ session' = [session EXCEPT !.conversationHistory = req[h].history]
       ELSE /\ session' = [session EXCEPT
                             !.conversationHistory =
                               pushAssistant(req[h].history, completion.content)]
            /\ response' = [status |-> 200, kind |-> "chat",
                            message |-> completion.content]
            /\ turns' = [turns EXCEPT ![req[h].turn].status = 200,
                                      ![req[h].turn].completion = "returned",
                                      ![req[h].turn].reply = completion.content]
  /\ pc' = [pc EXCEPT ![h] = "idle"]
  /\ req' = [req EXCEPT ![h] = NoReq]
  /\ UNCHANGED <<build, playlists, calls, sel>>

NextConcurrent ==
  \/ \E h \in Handlers, body \in ConcurrentBodies : ChatArrives(h, body) /\ UNCHANGED messages
  \/ \E h \in Handlers, intentAnalysis \in IntentOutcomes :
       IntentReturnsOf(h, intentAnalysis) /\ UNCHANGED messages
  \/ \E h \in Handlers : SearchReturnsOf(h) /\ UNCHANGED messages
  \/ \E h \in Handlers, completion \in CompletionOutcomes :
       CompletionReturnsOf(h, completion) /\ UNCHANGED messages

SpecConcurrent == InitConcurrent /\ [][NextConcurrent]_vars

\* C26: the backend does not guard concurrent turns of a session: a chat
\* request with a credential and a message that arrives while other turns of the
\* session are suspended on an external call is neither rejected nor queued, it
\* starts at once, and each turn in flight pushes on the session's history.
C26_NoGuardOnConcurrentTurns ==
  /\ \A k \in DOMAIN calls :
       (/\ calls[k].authenticated
        /\ "message" \in DOMAIN calls[k].body
        /\ calls[k].body.message # <<>>)
         => calls[k].status = "started"
  /\ Cardinality({k \in DOMAIN calls : calls[k].status = "started"}) = Len(turns)
  /\ \A h \in inFlight :
       /\ turns[req[h].turn].completion = "pending"
       /\ turns[req[h].turn].message = req[h].message
       /\ pc[h] = "completion"
            => req[h].history[Len(req[h].history)]
                 = [role |-> "user", content |-> req[h].message]
  /\ \A g \in inFlight, h \in inFlight : g # h => req[g].turn # req[h].turn

\* two turns of the session are in flight, the second started while the first
\* was suspended, and both have pushed their utterance on the history
C26_Witness ==
  /\ Cardinality(inFlight) = 2
  /\ \E k \in DOMAIN calls : calls[k].status = "started" /\ calls[k].inFlight # {}
  /\ \A h \in inFlight :
       /\ pc[h] = "completion"
       /\ req[h].history[Len(req[h].history)] = [role |-> "user", content |-> req[h].message]

====
